---------------------------- MODULE Spec2Model ----------------------------
(***************************************************************************)
(* A model of the zx edition of the multi-repo agent: the target expander  *)
(* (lib/taskgen.mjs, parseTargetFile), the artifact naming of              *)
(* generateTasks, the repository grouping of lib/utils.mjs and the         *)
(* executor of lib/executor.mjs (runTask, executeSequential,               *)
(* executeParallel, executeTasks) as driven by main() of                   *)
(* gen-and-run-tasks.mjs.                                                  *)
(*                                                                         *)
(* A JavaScript string is a sequence of one-character strings, so that     *)
(* file names are built, sorted and taken apart as the code does it.       *)
(***************************************************************************)
EXTENDS Integers, Sequences, FiniteSets, TLC

(***************************************************************************)
(* Bounds of the model.                                                    *)
(***************************************************************************)
\* The largest number of artifacts in the task directory.
MaxTasks == 3
\* The largest value of config.maxJobs that is tried.
MaxJobsBound == 2
\* The largest number of items in the target list of a target.yml.
MaxEntries == 2
\* The largest length of the repos list and of the branches list of an item.
MaxListLen == 2
\* The largest number of targets generateTasks loops over.
MaxTargets == 2
\* The largest number of keys a config.json defines.
MaxFileKeys == 1
\* The largest number of characters of a task file or guide file.
MaxTextLen == 3

(***************************************************************************)
(* Strings.                                                                *)
(***************************************************************************)
DigitChars == <<"0", "1", "2", "3", "4", "5", "6", "7", "8", "9">>

\* The UTF-16 code unit of a character: what Array.prototype.sort compares.
CharCode(c) ==
  CASE c = "." -> 46
    [] c = "/" -> 47
    [] c \in {DigitChars[i] : i \in 1..10} ->
         47 + (CHOOSE i \in 1..10 : DigitChars[i] = c)
    [] c = "_" -> 95
    [] c = "a" -> 97
    [] c = "b" -> 98
    [] c = "c" -> 99
    [] c = "d" -> 100
    [] c = "g" -> 103
    [] c = "k" -> 107
    [] c = "l" -> 108
    [] c = "m" -> 109
    [] c = "n" -> 110
    [] c = "o" -> 111
    [] c = "r" -> 114
    [] c = "s" -> 115
    [] c = "t" -> 116
    [] c = "u" -> 117

IsDigit(c) == c \in {DigitChars[i] : i \in 1..10}

MinOf(S) == CHOOSE x \in S : \A y \in S : x <= y

\* a < b for two strings, by code units, as the default comparator of sort().
StrLess(a, b) ==
  LET n == IF Len(a) < Len(b) THEN Len(a) ELSE Len(b)
      diff == {i \in 1..n : a[i] # b[i]}
  IN  IF diff = {} THEN Len(a) < Len(b)
      ELSE CharCode(a[MinOf(diff)]) < CharCode(b[MinOf(diff)])

\* String(n) for a natural number n.
RECURSIVE NumberToString(_)
NumberToString(n) ==
  IF n < 10 THEN <<DigitChars[n + 1]>>
  ELSE NumberToString(n \div 10) \o <<DigitChars[(n % 10) + 1]>>

\* s.padStart(width, fill)
RECURSIVE padStart(_, _, _)
padStart(s, width, fill) ==
  IF Len(s) >= width THEN s ELSE padStart(<<fill>> \o s, width, fill)

\* s.split(sep) for a one-character separator.
RECURSIVE split(_, _)
split(s, sep) ==
  LET hits == {i \in 1..Len(s) : s[i] = sep}
  IN  IF hits = {} THEN <<s>>
      ELSE <<SubSeq(s, 1, MinOf(hits) - 1)>>
             \o split(SubSeq(s, MinOf(hits) + 1, Len(s)), sep)

\* parts.join(sep)
RECURSIVE join(_, _)
join(parts, sep) ==
  IF Len(parts) = 0 THEN <<>>
  ELSE IF Len(parts) = 1 THEN parts[1]
  ELSE parts[1] \o <<sep>> \o join(Tail(parts), sep)

\* s.endsWith(suffix)
endsWith(s, suffix) ==
  /\ Len(s) >= Len(suffix)
  /\ SubSeq(s, Len(s) - Len(suffix) + 1, Len(s)) = suffix

MdExt == <<".", "m", "d">>

\* path.join(dir, file) for two relative paths without "." or ".." segments.
pathJoin(dir, file) == dir \o <<"/">> \o file

\* path.basename(p, ext)
basename(p, ext) ==
  LET parts == split(p, "/")
      file == parts[Len(parts)]
  IN  IF endsWith(file, ext) /\ Len(file) > Len(ext)
      THEN SubSeq(file, 1, Len(file) - Len(ext))
      ELSE file

(***************************************************************************)
(* Names.  The jobs of the model name a repository under two branches, one *)
(* of them with an underscore in its name, a second repository, and a      *)
(* repository whose name is a property that every JavaScript object        *)
(* inherits from Object.prototype.                                         *)
(***************************************************************************)
Constructor == <<"c", "o", "n", "s", "t", "r", "u", "c", "t", "o", "r">>

\* The (repo, branch) pairs of the jobs.
Jobs ==
  {<< <<"a">>, <<"m">> >>,
   << <<"a">>, <<"b", "_", "m">> >>,
   << <<"b">>, <<"m">> >>,
   << Constructor, <<"m">> >>}

\* Property names that `{}` inherits (constructor, toString, valueOf,
\* hasOwnProperty, __proto__, ...): a lookup groups[name] finds them although
\* the object has no own property of that name.  The names of the model hold
\* one of them.
InheritedProperties == {Constructor}

\* paths.outputDir and paths.logDir, as resolveFilePaths sets them.
OutputDir == <<"t", "a", "s", "k", "s">>

LogDir == <<"l", "o", "g", "s">>

(***************************************************************************)
(* Artifact names (generateTasks) and repository keys (utils.mjs).         *)
(***************************************************************************)
\* The zero-padding width of the task counter.
PadWidth == 3

\* `${String(taskCounter).padStart(3, '0')}_${repo}_${branch}.md`
taskFileName(taskCounter, repo, branch) ==
  padStart(NumberToString(taskCounter), PadWidth, "0")
    \o <<"_">> \o repo \o <<"_">> \o branch \o MdExt

\* The number of digits s starts with.
RECURSIVE LeadingDigits(_)
LeadingDigits(s) ==
  IF Len(s) > 0 /\ IsDigit(s[1]) THEN 1 + LeadingDigits(Tail(s)) ELSE 0

\* s.replace(/\.md$/, '')
stripMd(s) ==
  IF endsWith(s, MdExt) THEN SubSeq(s, 1, Len(s) - Len(MdExt)) ELSE s

\* s.replace(/^\d+_/, '')
stripNumberPrefix(s) ==
  LET d == LeadingDigits(s)
  IN  IF d >= 1 /\ Len(s) > d /\ s[d + 1] = "_"
      THEN SubSeq(s, d + 2, Len(s))
      ELSE s

extractRepoFromFilename(filename) ==
  LET base == stripNumberPrefix(stripMd(filename))
      parts == split(base, "_")
  IN  IF Len(parts) > 1
      THEN join(SubSeq(parts, 1, Len(parts) - 1), "_")
      ELSE base

\* The loop of groupTasksByRepo from the i-th task file on.  g.keys is the
\* insertion order of the own properties of `groups` (what Object.keys
\* returns: no key of the model is a canonical array index), g.tasks the
\* arrays, g.threw whether `groups[repo].push` raised a TypeError: for an
\* inherited property groups[repo] is truthy, no array is stored, and the
\* inherited value has no push method.
RECURSIVE groupLoop(_, _, _)
groupLoop(taskFiles, i, g) ==
  IF i > Len(taskFiles) THEN g
  ELSE LET parts == split(taskFiles[i], "/")
           filename == parts[Len(parts)]
           repo == extractRepoFromFilename(filename)
       IN  IF repo \in DOMAIN g.tasks
           THEN groupLoop(taskFiles, i + 1,
                  [g EXCEPT !.tasks[repo] = Append(@, taskFiles[i])])
           ELSE IF repo \in InheritedProperties
           THEN [g EXCEPT !.threw = TRUE]
           ELSE groupLoop(taskFiles, i + 1,
                  [threw |-> FALSE,
                   keys |-> Append(g.keys, repo),
                   tasks |-> g.tasks @@ (repo :> <<taskFiles[i]>>)])

\* groupTasksByRepo with a group per task file instead of per repository.
groupTasksByFile(taskFiles) ==
  [threw |-> FALSE,
   keys |-> [i \in 1..Len(taskFiles) |-> basename(taskFiles[i], MdExt)],
   tasks |-> [key \in {basename(taskFiles[i], MdExt) : i \in 1..Len(taskFiles)} |->
                <<CHOOSE f \in {taskFiles[i] : i \in 1..Len(taskFiles)} :
                    basename(f, MdExt) = key>>]]

groupTasksByRepo(taskFiles) ==
  groupLoop(taskFiles, 1, [threw |-> FALSE, keys |-> <<>>, tasks |-> <<>>])

(***************************************************************************)
(* The content of a task file (generateTaskContent) and the reading of its *)
(* Workspace Path (extractWorkspacePath).  A text is the sequence of its   *)
(* characters, "\n" being the line feed.                                   *)
(***************************************************************************)
WorkspaceDir == <<"w", "o", "r", "k", "s", "p", "a", "c", "e">>

TaskTitle ==
  <<"#", " ", "T", "a", "s", "k", ":", " ">>

RepositoryInfoHeading ==
  <<"#", "#", " ", "R", "e", "p", "o", "s", "i", "t", "o", "r", "y", " ",
    "I", "n", "f", "o">>

OrganizationField ==
  <<"-", " ", "*", "*", "O", "r", "g", "a", "n", "i", "z", "a", "t", "i",
    "o", "n", "*", "*", ":", " ">>

RepositoryField ==
  <<"-", " ", "*", "*", "R", "e", "p", "o", "s", "i", "t", "o", "r", "y",
    "*", "*", ":", " ">>

BranchField ==
  <<"-", " ", "*", "*", "B", "r", "a", "n", "c", "h", "*", "*", ":", " ">>

WorkspacePathField ==
  <<"-", " ", "*", "*", "W", "o", "r", "k", "s", "p", "a", "c", "e", " ",
    "P", "a", "t", "h", "*", "*", ":", " ">>

GuideHeading == <<"#", "#", " ", "G", "u", "i", "d", "e">>

GuideOpen == <<"<", "g", "u", "i", "d", "e", ">">>

GuideClose == <<"<", "/", "g", "u", "i", "d", "e", ">">>

DescriptionHeading ==
  <<"#", "#", " ", "D", "e", "s", "c", "r", "i", "p", "t", "i", "o", "n">>

TaskOpen == <<"<", "t", "a", "s", "k", ">">>

TaskClose == <<"<", "/", "t", "a", "s", "k", ">">>

\* s.trim(), the white space of the model being the space.
RECURSIVE trimStart(_)
trimStart(s) ==
  IF s # <<>> /\ Head(s) = " " THEN trimStart(Tail(s)) ELSE s

RECURSIVE trimEnd(_)
trimEnd(s) ==
  IF s # <<>> /\ s[Len(s)] = " " THEN trimEnd(SubSeq(s, 1, Len(s) - 1)) ELSE s

trim(s) == trimEnd(trimStart(s))

\* lines.filter(line => line.trim())
RECURSIVE filterLines(_)
filterLines(lines) ==
  IF lines = <<>> THEN <<>>
  ELSE (IF trim(Head(lines)) # <<>> THEN <<Head(lines)>> ELSE <<>>)
         \o filterLines(Tail(lines))

\* (await fs.readFile(file, 'utf-8')).split('\n').filter(line => line.trim()).join('\n')
readContent(text) == join(filterLines(split(text, "\n")), "\n")

\* The template literal of generateTaskContent.
generateTaskContent(target, workspaceDir, guideText, taskText) ==
  LET workspacePath == pathJoin(workspaceDir, target.repo)
  IN  join(<<TaskTitle \o target.repo \o <<"/">> \o target.branch
               \o <<" ", "(", "f", "r", "o", "m", " ">> \o target.org
               \o <<"/">> \o target.repo \o <<")">>,
             <<>>,
             RepositoryInfoHeading,
             OrganizationField \o target.org,
             RepositoryField \o target.repo,
             BranchField \o target.branch,
             WorkspacePathField \o workspacePath,
             <<>>,
             GuideHeading,
             GuideOpen,
             guideText,
             GuideClose,
             <<>>,
             DescriptionHeading,
             TaskOpen,
             taskText,
             TaskClose,
             <<>>
           >>, "\n")

\* s.startsWith(prefix)
startsWith(s, prefix) ==
  /\ Len(s) >= Len(prefix)
  /\ SubSeq(s, 1, Len(prefix)) = prefix

\* content.match(/^- \*\*Workspace Path\*\*: (.+)$/m): the first line that
\* starts with the field name and has a character after it.
extractWorkspacePath(content) ==
  LET lines == split(content, "\n")
      hits == {k \in 1..Len(lines) :
                 /\ startsWith(lines[k], WorkspacePathField)
                 /\ Len(lines[k]) > Len(WorkspacePathField)}
  IN  IF hits = {} THEN [threw |-> TRUE, path |-> <<>>]
      ELSE [threw |-> FALSE,
            path |-> trim(SubSeq(lines[MinOf(hits)], Len(WorkspacePathField) + 1,
                                 Len(lines[MinOf(hits)])))]

(***************************************************************************)
(* Configuration (lib/config.mjs) and command line (parseArguments).       *)
(*                                                                         *)
(* A JavaScript value is [t, v, s]: its type t, the number v of a number   *)
(* (1 and 0 for true and false) and the characters s of a string.  A key   *)
(* that an object does not have maps to Missing.                           *)
(***************************************************************************)
JsUndefined == [t |-> "undefined", v |-> 0, s |-> <<>>]

JsTrue == [t |-> "boolean", v |-> 1, s |-> <<>>]

JsFalse == [t |-> "boolean", v |-> 0, s |-> <<>>]

JsNaN == [t |-> "NaN", v |-> 0, s |-> <<>>]

JsNumber(n) == [t |-> "number", v |-> n, s |-> <<>>]

JsString(str) == [t |-> "string", v |-> 0, s |-> str]

Missing == [t |-> "missing", v |-> 0, s |-> <<>>]

\* The value as a condition: if (x), x ? a : b, x && y.
truthy(x) ==
  CASE x.t = "boolean" -> x.v = 1
    [] x.t = "number" -> x.v # 0
    [] x.t = "string" -> x.s # <<>>
    [] OTHER -> FALSE

\* Number.isInteger(x): the numbers of the model are integers.
isInteger(x) == x.t = "number"

\* The number that a string of digits writes.
RECURSIVE DigitsValue(_)
DigitsValue(digits) ==
  IF digits = <<>> THEN 0
  ELSE 10 * DigitsValue(SubSeq(digits, 1, Len(digits) - 1))
         + (CHOOSE d \in 0..9 : DigitChars[d + 1] = digits[Len(digits)])

\* parseInt(x): of a number, parseInt of its decimal notation; of a string,
\* the number its leading digits write, NaN when it starts with none.
parseInt(x) ==
  CASE x.t = "number" -> x
    [] x.t = "string" ->
         IF LeadingDigits(x.s) = 0 THEN JsNaN
         ELSE JsNumber(DigitsValue(SubSeq(x.s, 1, LeadingDigits(x.s))))
    [] OTHER -> JsNaN

ConfigKeys ==
  {"parallel", "maxJobs", "saveLogs", "generateOnly", "runOnly", "guideFile"}

GuideMd == <<"G", "U", "I", "D", "E", ".", "m", "d">>

DefaultMaxJobs == 4

DEFAULT_CONFIG ==
  [key \in ConfigKeys |->
     CASE key = "parallel" -> JsFalse
       [] key = "maxJobs" -> JsNumber(DefaultMaxJobs)
       [] key = "saveLogs" -> JsTrue
       [] key = "generateOnly" -> JsFalse
       [] key = "runOnly" -> JsFalse
       [] key = "guideFile" -> JsString(GuideMd)]

\* A merge that lets a layer overwrite a key with a truthy value only.
spreadTruthy(cfg, layer) ==
  [key \in ConfigKeys |-> IF truthy(layer[key]) THEN layer[key] ELSE cfg[key]]

\* { ...config, ...layer }
spread(cfg, layer) ==
  [key \in ConfigKeys |-> IF layer[key] = Missing THEN cfg[key] ELSE layer[key]]

\* The options object parseArguments builds from argv.
parseArguments(argv) ==
  [key \in ConfigKeys |->
     CASE key = "parallel" -> argv.parallel
       [] key = "maxJobs" ->
            IF truthy(argv.maxJobs) THEN parseInt(argv.maxJobs) ELSE JsUndefined
       [] key = "saveLogs" -> argv.saveLogs
       [] key = "generateOnly" -> argv.generateOnly
       [] key = "runOnly" -> argv.runOnly
       [] key = "guideFile" -> argv.guideFile]

\* Object.fromEntries(Object.entries(cliOptions).filter(([_, v]) => v !== undefined))
filteredCliOptions(cliOptions) ==
  [key \in ConfigKeys |->
     IF cliOptions[key] = JsUndefined THEN Missing ELSE cliOptions[key]]

EmptyObject == [key \in ConfigKeys |-> Missing]

\* A config.json is [readable, object]: whether the file exists and parses,
\* and the object it parses to.
ConfigFile(object) == [readable |-> TRUE, object |-> object]

\* No config.json, or one that cannot be read or parsed.
NoFile == [readable |-> FALSE, object |-> EmptyObject]

\* readJsonConfig: the parsed object, {} without a readable file.
readJsonConfig(file) == IF file.readable THEN file.object ELSE EmptyObject

\* loadConfig(cliOptions, bundlePath), given whether bundlePath is set,
\* the root config.json and the config.json of the bundle.
loadConfig(cliOptions, bundlePath, rootFile, bundleFile) ==
  LET c1 == spread(DEFAULT_CONFIG, readJsonConfig(rootFile))
      c2 == IF bundlePath THEN spread(c1, readJsonConfig(bundleFile)) ELSE c1
  IN  spread(c2, filteredCliOptions(cliOptions))

\* resolveFilePaths(bundlePath, guideFile): the guide file of the paths it
\* returns, given whether bundlePath is set, its value and whether the
\* bundle has a GUIDE.md.
resolveFilePaths(bundle, bundlePath, bundleGuide, guideFile) ==
  IF bundle /\ bundleGuide THEN pathJoin(bundlePath, GuideMd) ELSE guideFile

\* validateConfig without the test for conflicting options.
validateConfigMaxJobsOnly(cfg) ==
  /\ truthy(cfg["parallel"])
  /\ ~isInteger(cfg["maxJobs"]) \/ cfg["maxJobs"].v < 1

\* validateConfig throws.
validateConfigThrows(cfg) ==
  \/ truthy(cfg["generateOnly"]) /\ truthy(cfg["runOnly"])
  \/ /\ truthy(cfg["parallel"])
     /\ ~isInteger(cfg["maxJobs"]) \/ cfg["maxJobs"].v < 1

(***************************************************************************)
(* The state of a run.                                                     *)
(***************************************************************************)
VARIABLES
  config,          \* the configuration main runs under, once validated
  outputDirExists, \* whether the task directory exists
  taskDir,         \* the artifacts in the task directory
  phase,           \* "startup", "validate", "generation", "main",
                   \* "sequential", "parallel" or "exited"
  taskFiles,       \* executeTasks: the sorted array of task file paths
  status,          \* per task file: "pending", "reading", "agent", "done";
                   \* "hung" for an agent process that never exits
  started,         \* executeSequential: the task files runTask was called for, in order
  taskGroups,      \* executeParallel: repository key -> its task files
  repoNames,       \* executeParallel: Object.keys(taskGroups)
  queue,           \* the repository groups waiting in the limiter
  activeGroups,    \* the repository groups holding a slot of the limiter
  results,         \* executeSequential: the results array
  groupResults,    \* executeParallel: repository key -> groupResults
  successful,      \* the counter of successful tasks
  failed,          \* the counter of failed tasks
  ret,             \* what executeSequential or executeParallel returned, with totalTasks
  exitCode         \* the process exit status, -1 while the process runs

execVars == <<config, outputDirExists, taskDir, phase, taskFiles, status,
              started, taskGroups, repoNames, queue, activeGroups, results,
              groupResults, successful, failed, ret, exitCode>>

\* The state of a call of parseTargetFile.
VARIABLES
  targetData,      \* the parsed target.yml
  parsePc,         \* "start", "returned" or "threw"
  targets,         \* the array parseTargetFile returned
  warnings         \* the indices of the items it warned about, in order

expandVars == <<targetData, parsePc, targets, warnings>>

\* The state of generateTasks and of the workspace it provisions.
VARIABLES
  genTargets,      \* the targets array generateTasks loops over
  genIndex,        \* the index of the next target, 0 before the clean-up
  taskCounter,     \* the counter of the next task file name
  successCount,    \* the number of task files written, which generateTasks returns
  workspace,       \* repo -> the working copy workspace/<repo>
  forks,           \* the repositories the current user has forked
  calls            \* per call of ensureRepoExists so far: what it did and returned

genVars == <<genTargets, genIndex, taskCounter, successCount, workspace,
             forks, calls>>

\* The start of main.
VARIABLES
  invocation,      \* argv, whether --bundle is given, the root config.json,
                   \* that of the bundle, the task directory main starts with
  loaded,          \* the object loadConfig returned
  paths            \* the guide file resolveFilePaths returned, once it has

startVars == <<invocation, loaded, paths>>

\* The files generateTasks reads.
VARIABLES
  inputFiles,      \* target.yml, the task file and the guide file
  guideContent,    \* generateTasks: the guide text it embeds
  taskContent      \* generateTasks: the task text it embeds

fileVars == <<inputFiles, guideContent, taskContent>>

\* The state of execute_parallel of the shell script.
VARIABLES
  pids,            \* the repository groups whose subshell has not been waited for
  jobCount,        \* job_count
  subshell,        \* per repository group: "none", "running", or the exit
                   \* status of its subshell, "0" or "1"
  taskResult,      \* per task file: the line of its task result file
  summary          \* whether the execution summary has been printed

shellVars == <<pids, jobCount, subshell, taskResult, summary>>

\* The variables the executor leaves alone.
notExecVars == <<expandVars, genVars, startVars, fileVars, shellVars>>

vars == <<execVars, expandVars, genVars, startVars, fileVars, shellVars>>

NoValue == [successful |-> 0, failed |-> 0, totalTasks |-> 0, results |-> <<>>]

\* null and undefined, for a log file path.
NoLog == <<>>

\* The artifact that generateTasks writes for one job under a counter value:
\* its file name and the Repository Info it embeds.
Artifact(counter, job) ==
  [name |-> taskFileName(counter, job[1], job[2]),
   counter |-> counter,
   repo |-> job[1],
   branch |-> job[2]]

JobLists == UNION {[1..n -> Jobs] : n \in 0..MaxTasks}

\* The counter of the first artifact in the task directory.  executeTasks runs
\* whatever the directory holds: the artifacts of a generation from the first
\* on, or the last artifacts of a generation of a thousand jobs.
FirstCounters == {1, 999}

\* The task file of index i, and the index of a task file path.
IndexOf(taskFile) == CHOOSE i \in 1..Len(taskFiles) : taskFiles[i] = taskFile

\* The artifact a task file path names.
ArtifactOf(taskFile) ==
  CHOOSE a \in taskDir : pathJoin(OutputDir, a.name) = taskFile

\* The repository group whose loop runs the task file of index i.
GroupOf(i) ==
  CHOOSE repo \in DOMAIN taskGroups :
    \E k \in 1..Len(taskGroups[repo]) : taskGroups[repo][k] = taskFiles[i]

\* PositionInGroup with every task taken for the last one of its group.
PositionInGroupLast(i) == Len(taskGroups[GroupOf(i)])

PositionInGroup(i) ==
  CHOOSE k \in 1..Len(taskGroups[GroupOf(i)]) :
    taskGroups[GroupOf(i)][k] = taskFiles[i]

\* array.sort() of a set of distinct strings.
RECURSIVE sort(_)
sort(S) ==
  IF S = {} THEN <<>>
  ELSE LET least == CHOOSE x \in S : \A y \in S \ {x} : StrLess(x, y)
       IN  <<least>> \o sort(S \ {least})

\* listTaskFiles without the sort, for a readdir that lists the directory in
\* descending order.
RECURSIVE reverse(_)
reverse(seq) ==
  IF seq = <<>> THEN <<>> ELSE Append(reverse(Tail(seq)), Head(seq))

listTaskFilesUnsorted(dir) ==
  reverse(sort({pathJoin(OutputDir, a.name) : a \in {b \in dir : endsWith(b.name, MdExt)}}))

\* readdir(outputDir).filter(endsWith('.md')).map(join(outputDir, .)).sort()
listTaskFiles(dir) ==
  sort({pathJoin(OutputDir, a.name) : a \in {b \in dir : endsWith(b.name, MdExt)}})

InitExec ==
  /\ \E parallel \in BOOLEAN, saveLogs \in BOOLEAN, maxJobs \in 1..MaxJobsBound :
       \* maxJobs is read in parallel mode only: a sequential run is
       \* modelled under one value of it
       /\ ~parallel => maxJobs = 1
       \* main: parallel mode turns log saving on
       /\ config = [parallel |-> parallel, maxJobs |-> maxJobs,
                    saveLogs |-> (saveLogs \/ parallel),
                    generateOnly |-> FALSE, runOnly |-> TRUE]
  /\ outputDirExists \in BOOLEAN
  /\ \E jobs \in JobLists, first \in FirstCounters :
       /\ ~outputDirExists => jobs = <<>> /\ first = 1
       /\ jobs = <<>> => first = 1
       /\ taskDir = {Artifact(first + i - 1, jobs[i]) : i \in 1..Len(jobs)}
  /\ phase = "main"
  /\ taskFiles = <<>>
  /\ status = <<>>
  /\ started = <<>>
  /\ taskGroups = <<>>
  /\ repoNames = <<>>
  /\ queue = <<>>
  /\ activeGroups = {}
  /\ results = <<>>
  /\ groupResults = <<>>
  /\ successful = 0
  /\ failed = 0
  /\ ret = NoValue
  /\ exitCode = -1

(***************************************************************************)
(* runTask.                                                                *)
(***************************************************************************)
\* The saveLogs argument: executeParallel passes true.
SaveLogsArg == phase = "parallel" \/ config.saveLogs

\* A log file named after the repository of the task instead of the task.
LogFileArgPerRepo(i) ==
  IF SaveLogsArg
  THEN pathJoin(LogDir, extractRepoFromFilename(basename(taskFiles[i], <<>>))
                          \o <<".", "l", "o", "g">>)
  ELSE NoLog

\* The logFile argument: path.join(logDir, `${taskName}.log`), or null.
LogFileArg(i) ==
  IF SaveLogsArg
  THEN pathJoin(LogDir, basename(taskFiles[i], MdExt) \o <<".", "l", "o", "g">>)
  ELSE NoLog

\* A TaskResult is kept as the index of its task file, its success flag and
\* the message of the error the outer catch of runTask caught ("none" when it
\* caught nothing); its taskName and logFile are functions of these.
resultTaskName(r) == basename(taskFiles[r.task], MdExt)

\* The logFile of a result: the outer catch and, without log saving, the
\* inner catch return none.
resultLogFile(r) == IF r.error = "none" THEN LogFileArg(r.task) ELSE NoLog

\* The object runTask returns when the agent process has exited: the inner
\* catch after a non-zero exit, the end of the try block otherwise.
AgentResult(i, code) ==
  [task |-> i, success |-> (code = 0), error |-> "none"]

\* The object the outer catch of runTask returns.
CaughtResult(i, message) ==
  [task |-> i, success |-> FALSE, error |-> message]

\* The synchronous start of runTask for the task files in `is`, in order:
\* each call runs up to its first await, the read of the task file.
StartTasks(st, is) ==
  [i \in DOMAIN st |->
     IF \E k \in 1..Len(is) : is[k] = i THEN "reading" ELSE st[i]]

\* CountResult with the successful counter incremented for every result.
CountResultAlwaysSuccessful(r) ==
  /\ successful' = successful + 1
  /\ failed' = IF r.success THEN failed ELSE failed + 1

\* The counting of a result after `await runTask(...)`.
CountResult(r) ==
  /\ successful' = IF r.success THEN successful + 1 ELSE successful
  /\ failed' = IF r.success THEN failed ELSE failed + 1

\* What follows the end of runTask for task i with result r, up to the next
\* await: the result is pushed and counted and the loop goes on.  In
\* sequential mode the loop calls runTask for the next task file.  In
\* parallel mode the loop of the group calls runTask for the group's next
\* task file; after the last one the group's function returns, the limiter
\* frees its slot and calls the function at the head of its queue, which
\* starts that group's first task.
TaskDone(i, r) ==
  /\ CountResult(r)
  /\ IF phase = "sequential"
     THEN /\ results' = Append(results, r)
          /\ IF i < Len(taskFiles)
             THEN /\ status' = StartTasks([status EXCEPT ![i] = "done"], <<i + 1>>)
                  /\ started' = Append(started, i + 1)
             ELSE /\ status' = [status EXCEPT ![i] = "done"]
                  /\ UNCHANGED started
          /\ UNCHANGED <<groupResults, queue, activeGroups>>
     ELSE LET repo == GroupOf(i)
              repoTasks == taskGroups[repo]
              k == PositionInGroup(i)
          IN  /\ groupResults' = [groupResults EXCEPT ![repo] = Append(@, r)]
              /\ UNCHANGED results
              /\ IF k < Len(repoTasks)
                 THEN /\ status' = StartTasks([status EXCEPT ![i] = "done"],
                                              <<IndexOf(repoTasks[k + 1])>>)
                      /\ UNCHANGED <<queue, activeGroups, started>>
                 ELSE IF queue # <<>>
                 THEN LET next == IndexOf(taskGroups[Head(queue)][1])
                      IN  /\ activeGroups' = (activeGroups \ {repo}) \cup {Head(queue)}
                          /\ queue' = Tail(queue)
                          /\ status' = StartTasks([status EXCEPT ![i] = "done"], <<next>>)
                          /\ UNCHANGED started
                 ELSE /\ activeGroups' = activeGroups \ {repo}
                      /\ status' = [status EXCEPT ![i] = "done"]
                      /\ UNCHANGED <<queue, started>>
  /\ UNCHANGED <<config, outputDirExists, taskDir, phase, taskFiles,
                 taskGroups, repoNames, ret, exitCode>>
  /\ UNCHANGED notExecVars

\* extractWorkspacePath finds no Workspace Path line in the task file.
RunTaskNoWorkspacePath(i) ==
  /\ phase \in {"sequential", "parallel"}
  /\ status[i] = "reading"
  /\ TaskDone(i, CaughtResult(i, "no workspace path"))

\* The workspace directory named by the task file does not exist.
RunTaskNoWorkspaceDir(i) ==
  /\ phase \in {"sequential", "parallel"}
  /\ status[i] = "reading"
  /\ TaskDone(i, CaughtResult(i, "no workspace directory"))

\* The task file names an existing workspace: the agent process is spawned.
RunTaskSpawn(i) ==
  /\ phase \in {"sequential", "parallel"}
  /\ status[i] = "reading"
  /\ status' = [status EXCEPT ![i] = "agent"]
  /\ UNCHANGED <<config, outputDirExists, taskDir, phase, taskFiles, started,
                 taskGroups, repoNames, queue, activeGroups, results,
                 groupResults, successful, failed, ret, exitCode>>
  /\ UNCHANGED notExecVars

\* The agent process spawned for task i is one that never exits: the await
\* of the command in runTask stays pending for good.
RunTaskSpawnHangs(i) ==
  /\ phase = "parallel"
  /\ status[i] = "reading"
  /\ status' = [status EXCEPT ![i] = "hung"]
  /\ UNCHANGED <<config, outputDirExists, taskDir, phase, taskFiles, started,
                 taskGroups, repoNames, queue, activeGroups, results,
                 groupResults, successful, failed, ret, exitCode>>
  /\ UNCHANGED notExecVars

\* The agent process of task i exits with the given status.
AgentExit(i, code) ==
  /\ phase \in {"sequential", "parallel"}
  /\ status[i] = "agent"
  /\ TaskDone(i, AgentResult(i, code))

(***************************************************************************)
(* executeTasks, executeSequential and executeParallel, called by main.    *)
(***************************************************************************)
\* An error thrown out of executeTasks: main's catch prints it and exits.
MainCatch ==
  /\ phase' = "exited"
  /\ exitCode' = 1

\* The task directory does not exist.
ExecuteTasksNoDirectory ==
  /\ phase = "main"
  /\ ~outputDirExists
  /\ MainCatch
  /\ UNCHANGED <<config, outputDirExists, taskDir, taskFiles, status, started,
                 taskGroups, repoNames, queue, activeGroups, results,
                 groupResults, successful, failed, ret>>
  /\ UNCHANGED notExecVars

\* executeTasks returning an empty summary for an empty task directory, and
\* main exiting on it as on a run without failures.
ExecuteTasksNoFilesSucceeds ==
  /\ phase = "main"
  /\ outputDirExists
  /\ listTaskFiles(taskDir) = <<>>
  /\ ret' = [results |-> <<>>, successful |-> 0, failed |-> 0, totalTasks |-> 0]
  /\ phase' = "exited"
  /\ exitCode' = 0
  /\ UNCHANGED <<config, outputDirExists, taskDir, taskFiles, status, started,
                 taskGroups, repoNames, queue, activeGroups, results,
                 groupResults, successful, failed>>
  /\ UNCHANGED notExecVars

\* The task directory holds no task file.
ExecuteTasksNoFiles ==
  /\ phase = "main"
  /\ outputDirExists
  /\ listTaskFiles(taskDir) = <<>>
  /\ MainCatch
  /\ UNCHANGED <<config, outputDirExists, taskDir, taskFiles, status, started,
                 taskGroups, repoNames, queue, activeGroups, results,
                 groupResults, successful, failed, ret>>
  /\ UNCHANGED notExecVars

\* executeTasks calls executeSequential, whose loop calls runTask for the
\* first task file.
ExecuteSequential ==
  /\ phase = "main"
  /\ outputDirExists
  /\ ~config.parallel
  /\ LET files == listTaskFiles(taskDir)
     IN  /\ files # <<>>
         /\ taskFiles' = files
         /\ status' = StartTasks([i \in 1..Len(files) |-> "pending"], <<1>>)
         /\ started' = <<1>>
  /\ phase' = "sequential"
  /\ UNCHANGED <<config, outputDirExists, taskDir, taskGroups, repoNames,
                 queue, activeGroups, results, groupResults, successful,
                 failed, ret, exitCode>>
  /\ UNCHANGED notExecVars

\* Take for a limiter that admits every function at once.
TakeAll(seq, n) == seq

\* Drop for a limiter that forgets the functions it did not call at once.
DropAll(seq, n) == <<>>

\* The first n elements of a sequence, and the rest.
Take(seq, n) == SubSeq(seq, 1, IF n < Len(seq) THEN n ELSE Len(seq))

Drop(seq, n) == SubSeq(seq, (IF n < Len(seq) THEN n ELSE Len(seq)) + 1, Len(seq))

\* executeTasks calls executeParallel: the task files are grouped, every
\* group's function is handed to the limiter, which calls the first maxJobs
\* of them and queues the rest; each called group calls runTask for its
\* first task file.
ExecuteParallel ==
  /\ phase = "main"
  /\ outputDirExists
  /\ config.parallel
  /\ LET files == listTaskFiles(taskDir)
         g == groupTasksByRepo(files)
         admitted == Take(g.keys, config.maxJobs)
         first == [k \in 1..Len(admitted) |->
                     CHOOSE i \in 1..Len(files) : files[i] = g.tasks[admitted[k]][1]]
     IN  /\ files # <<>>
         /\ ~g.threw
         /\ taskFiles' = files
         /\ taskGroups' = g.tasks
         /\ repoNames' = g.keys
         /\ activeGroups' = {admitted[k] : k \in 1..Len(admitted)}
         /\ queue' = Drop(g.keys, config.maxJobs)
         /\ groupResults' = [repo \in DOMAIN g.tasks |-> <<>>]
         /\ status' = StartTasks([i \in 1..Len(files) |-> "pending"], first)
  /\ phase' = "parallel"
  /\ UNCHANGED <<config, outputDirExists, taskDir, started, results,
                 successful, failed, ret, exitCode>>
  /\ UNCHANGED notExecVars

\* groupTasksByRepo throws inside executeParallel: no task is run.
ExecuteParallelThrows ==
  /\ phase = "main"
  /\ outputDirExists
  /\ config.parallel
  /\ LET files == listTaskFiles(taskDir)
     IN  /\ files # <<>>
         /\ groupTasksByRepo(files).threw
         /\ taskFiles' = files
         /\ status' = [i \in 1..Len(files) |-> "pending"]
  /\ MainCatch
  /\ UNCHANGED <<config, outputDirExists, taskDir, started, taskGroups,
                 repoNames, queue, activeGroups, results, groupResults,
                 successful, failed, ret>>
  /\ UNCHANGED notExecVars

\* allResults: the groups' results, concatenated in the order of repoNames.
RECURSIVE flatten(_, _)
flatten(names, byGroup) ==
  IF names = <<>> THEN <<>>
  ELSE byGroup[Head(names)] \o flatten(Tail(names), byGroup)

\* ExecuteTasksReturn with main exiting 0 whatever the failed count is.
ExecuteTasksReturnExitZero ==
  /\ phase \in {"sequential", "parallel"}
  /\ \A i \in 1..Len(taskFiles) : status[i] = "done"
  /\ ret' = [successful |-> successful,
             failed |-> failed,
             totalTasks |-> Len(taskFiles),
             results |-> IF phase = "sequential" THEN results
                         ELSE flatten(repoNames, groupResults)]
  /\ exitCode' = 0
  /\ phase' = "exited"
  /\ UNCHANGED <<config, outputDirExists, taskDir, taskFiles, status, started,
                 taskGroups, repoNames, queue, activeGroups, results,
                 groupResults, successful, failed>>
  /\ UNCHANGED notExecVars

\* Every task is done: executeSequential or executeParallel returns its
\* counters and results, executeTasks returns them with totalTasks, and
\* main prints the summary and exits.
ExecuteTasksReturn ==
  /\ phase \in {"sequential", "parallel"}
  /\ \A i \in 1..Len(taskFiles) : status[i] = "done"
  /\ ret' = [successful |-> successful,
             failed |-> failed,
             totalTasks |-> Len(taskFiles),
             results |-> IF phase = "sequential" THEN results
                         ELSE flatten(repoNames, groupResults)]
  /\ exitCode' = IF failed > 0 THEN 1 ELSE 0
  /\ phase' = "exited"
  /\ UNCHANGED <<config, outputDirExists, taskDir, taskFiles, status, started,
                 taskGroups, repoNames, queue, activeGroups, results,
                 groupResults, successful, failed>>
  /\ UNCHANGED notExecVars

\* The repositories that targets name.
GenRepos == {<<"a">>, Constructor}

\* No upstream remote; also the empty string currentUpstream starts as.
NoRemote == <<>>

\* workspace/<repo> does not exist.
NoWorkingCopy == [exists |-> FALSE, git |-> FALSE, upstream |-> NoRemote]

\* workspace/<repo> exists and is not a working copy: a plain directory or
\* file, in no repository.
PlainDirectory == [exists |-> TRUE, git |-> FALSE, upstream |-> NoRemote]

\* generateTasks is not running.
GenIdle ==
  /\ genTargets = <<>>
  /\ genIndex = 0
  /\ taskCounter = 1
  /\ successCount = 0
  /\ workspace = [repo \in GenRepos |-> NoWorkingCopy]
  /\ forks = {}
  /\ calls = <<>>

\* No target file is being parsed.
\* main is past its start: what it was started with is left out.
NoArgv == [parallel |-> JsUndefined, maxJobs |-> JsUndefined,
           saveLogs |-> JsUndefined, generateOnly |-> JsUndefined,
           runOnly |-> JsUndefined, guideFile |-> JsUndefined]

\* resolveFilePaths has not been called.
NoPaths == [resolved |-> FALSE, guideFile |-> <<>>]

\* A text file that exists, and one that does not.
TextFile(text) == [exists |-> TRUE, text |-> text]

NoTextFile == [exists |-> FALSE, text |-> <<>>]

\* The three files are there, with one line each.
PlainInputs ==
  [target |-> "valid", task |-> TextFile(<<"t">>), guide |-> TextFile(<<"g">>)]

\* generateTasks has not read anything.
FilesIdle ==
  /\ inputFiles = PlainInputs
  /\ guideContent = <<>>
  /\ taskContent = <<>>

\* execute_parallel has not been called.
ShellIdle ==
  /\ pids = <<>>
  /\ jobCount = 0
  /\ subshell = <<>>
  /\ taskResult = <<>>
  /\ summary = FALSE

StartIdle ==
  /\ invocation = [argv |-> NoArgv, bundle |-> FALSE, rootFile |-> NoFile,
                   bundleFile |-> NoFile, bundleGuide |-> FALSE,
                   outputDir |-> "absent"]
  /\ loaded = EmptyObject
  /\ paths = NoPaths

ExpandIdle ==
  /\ targetData = [hasTarget |-> FALSE, target |-> <<>>]
  /\ parsePc = "returned"
  /\ targets = <<>>
  /\ warnings = <<>>

Init == InitExec /\ ExpandIdle /\ GenIdle /\ StartIdle /\ FilesIdle /\ ShellIdle

Next ==
  \/ ExecuteTasksNoDirectory
  \/ ExecuteTasksNoFiles
  \/ ExecuteSequential
  \/ ExecuteParallel
  \/ ExecuteParallelThrows
  \/ \E i \in 1..Len(taskFiles) :
       \/ RunTaskNoWorkspacePath(i)
       \/ RunTaskNoWorkspaceDir(i)
       \/ RunTaskSpawn(i)
       \/ \E code \in {0, 1} : AgentExit(i, code)
  \/ ExecuteTasksReturn

Spec == Init /\ [][Next]_vars

(***************************************************************************)
(* Parallel execution with agent processes that may never exit.  The event *)
(* loop runs every continuation that is ready, and an agent process that   *)
(* is not a hung one exits: a task that reads its task file goes on, and   *)
(* the agent of a task exits, under weak fairness.                         *)
(***************************************************************************)
InitHung ==
  /\ \E maxJobs \in 1..MaxJobsBound :
       config = [parallel |-> TRUE, maxJobs |-> maxJobs, saveLogs |-> TRUE,
                 generateOnly |-> FALSE, runOnly |-> TRUE]
  /\ outputDirExists = TRUE
  /\ \E jobs \in JobLists :
       /\ jobs # <<>>
       /\ taskDir = {Artifact(i, jobs[i]) : i \in 1..Len(jobs)}
  /\ phase = "main"
  /\ taskFiles = <<>>
  /\ status = <<>>
  /\ started = <<>>
  /\ taskGroups = <<>>
  /\ repoNames = <<>>
  /\ queue = <<>>
  /\ activeGroups = {}
  /\ results = <<>>
  /\ groupResults = <<>>
  /\ successful = 0
  /\ failed = 0
  /\ ret = NoValue
  /\ exitCode = -1
  /\ ExpandIdle /\ GenIdle /\ StartIdle /\ FilesIdle /\ ShellIdle

\* runTask for task i up to the spawn of its agent, or its early return.
RunTaskStart(i) ==
  /\ i \in 1..Len(taskFiles)
  /\ \/ RunTaskNoWorkspacePath(i)
     \/ RunTaskNoWorkspaceDir(i)
     \/ RunTaskSpawn(i)
     \/ RunTaskSpawnHangs(i)

\* The exit of the agent of task i.
AgentExits(i) ==
  /\ i \in 1..Len(taskFiles)
  /\ \E code \in {0, 1} : AgentExit(i, code)

NextHung ==
  \/ ExecuteParallel
  \/ ExecuteParallelThrows
  \/ \E i \in 1..Len(taskFiles) :
       \/ RunTaskNoWorkspacePath(i)
       \/ RunTaskNoWorkspaceDir(i)
       \/ RunTaskSpawn(i)
       \/ RunTaskSpawnHangs(i)
       \/ \E code \in {0, 1} : AgentExit(i, code)
  \/ ExecuteTasksReturn

FairHung ==
  \A i \in 1..MaxTasks : WF_vars(RunTaskStart(i)) /\ WF_vars(AgentExits(i))

SpecHung == InitHung /\ [][NextHung]_vars /\ FairHung

(***************************************************************************)
(* parseTargetFile (the target expander).                                  *)
(*                                                                         *)
(* The parsed YAML is [hasTarget, target]: hasTarget is whether data and   *)
(* data.target exist and data.target is an array.  An item of the array is *)
(* null (isNull) or an object; item.org is a string, the empty string when *)
(* the key is missing; item.repos and item.branches are [present, list],   *)
(* present telling whether the key exists.  An empty array is truthy in    *)
(* JavaScript, a missing key and an empty string are not.  item.repo and   *)
(* item.branch are the keys of the legacy form, a list of {repo, branch}   *)
(* pairs: strings, empty when the key is missing.                          *)
(***************************************************************************)
\* for (const branch of branches) targets.push({org, repo, branch}), from b on
RECURSIVE branchLoop(_, _, _, _)
branchLoop(org, repo, branches, b) ==
  IF b > Len(branches) THEN <<>>
  ELSE <<[org |-> org, repo |-> repo, branch |-> branches[b]]>>
         \o branchLoop(org, repo, branches, b + 1)

\* for (const repo of repos) { the loop over branches }, from r on
RECURSIVE repoLoop(_, _, _, _)
repoLoop(org, repos, branches, r) ==
  IF r > Len(repos) THEN <<>>
  ELSE branchLoop(org, repos[r], branches, 1)
         \o repoLoop(org, repos, branches, r + 1)

\* The two loops nested the other way round: branches outside, repos inside.
RECURSIVE branchesOuterLoop(_, _, _, _)
branchesOuterLoop(org, repos, branches, b) ==
  IF b > Len(branches) THEN <<>>
  ELSE [r \in 1..Len(repos) |->
          [org |-> org, repo |-> repos[r], branch |-> branches[b]]]
         \o branchesOuterLoop(org, repos, branches, b + 1)

expandItemBranchesOuter(item) ==
  branchesOuterLoop(item.org, item.repos.list, item.branches.list, 1)

\* The jobs pushed for one valid item.
expandItem(item) == repoLoop(item.org, item.repos.list, item.branches.list, 1)

\* !item.org || !item.repos || !item.branches
invalidItem(item) ==
  item.org = <<>> \/ ~item.repos.present \/ ~item.branches.present

\* The loop over data.target from item i on: acc is the targets array, warned
\* the indices of the items warned about.  Reading item.org of a null item
\* raises a TypeError, which the catch turns into the parse failure.
RECURSIVE itemLoop(_, _, _, _)
itemLoop(items, i, acc, warned) ==
  IF i > Len(items) THEN [threw |-> FALSE, targets |-> acc, warnings |-> warned]
  ELSE IF items[i].isNull
  THEN [threw |-> TRUE, targets |-> <<>>, warnings |-> warned]
  ELSE IF invalidItem(items[i])
  THEN itemLoop(items, i + 1, acc, Append(warned, i))
  ELSE itemLoop(items, i + 1, acc \o expandItem(items[i]), warned)

parseTargetFile(data) ==
  IF ~data.hasTarget
  THEN [threw |-> TRUE, targets |-> <<>>, warnings |-> <<>>]
  ELSE itemLoop(data.target, 1, <<>>, <<>>)

\* The input values of the model.
OrgValues == {<<>>, <<"o">>, <<"p">>}

RepoAt(k) == IF k % 2 = 1 THEN <<"a">> ELSE <<"b">>

BranchAt(k) == IF k % 2 = 1 THEN <<"m">> ELSE <<"b", "_", "m">>

Absent == [present |-> FALSE, list |-> <<>>]

ReposValues ==
  {Absent} \cup {[present |-> TRUE, list |-> [k \in 1..n |-> RepoAt(k)]] : n \in 0..MaxListLen}

BranchesValues ==
  {Absent} \cup {[present |-> TRUE, list |-> [k \in 1..n |-> BranchAt(k)]] : n \in 0..MaxListLen}

NullItem ==
  [isNull |-> TRUE, org |-> <<>>, repos |-> Absent, branches |-> Absent,
   repo |-> <<>>, branch |-> <<>>]

\* An item of the legacy form.
LegacyItem ==
  [isNull |-> FALSE, org |-> <<>>, repos |-> Absent, branches |-> Absent,
   repo |-> <<"a">>, branch |-> <<"m">>]

Items ==
  {NullItem, LegacyItem} \cup
  {[isNull |-> FALSE, org |-> org, repos |-> repos, branches |-> branches,
    repo |-> <<>>, branch |-> <<>>] :
     org \in OrgValues, repos \in ReposValues, branches \in BranchesValues}

TargetInputs ==
  {[hasTarget |-> FALSE, target |-> <<>>]} \cup
  {[hasTarget |-> TRUE, target |-> items] :
     items \in UNION {[1..n -> Items] : n \in 0..MaxEntries}}

\* The executor has not been started.
ExecIdle ==
  /\ config = [parallel |-> FALSE, maxJobs |-> 1, saveLogs |-> FALSE,
               generateOnly |-> FALSE, runOnly |-> FALSE]
  /\ outputDirExists = FALSE
  /\ taskDir = {}
  /\ phase = "main"
  /\ taskFiles = <<>>
  /\ status = <<>>
  /\ started = <<>>
  /\ taskGroups = <<>>
  /\ repoNames = <<>>
  /\ queue = <<>>
  /\ activeGroups = {}
  /\ results = <<>>
  /\ groupResults = <<>>
  /\ successful = 0
  /\ failed = 0
  /\ ret = NoValue
  /\ exitCode = -1

InitExpand ==
  /\ targetData \in TargetInputs
  /\ parsePc = "start"
  /\ targets = <<>>
  /\ warnings = <<>>
  /\ ExecIdle
  /\ GenIdle
  /\ StartIdle
  /\ FilesIdle
  /\ ShellIdle

\* parseTargetFile returns the targets array.
ParseTargetFileReturns ==
  /\ parsePc = "start"
  /\ ~parseTargetFile(targetData).threw
  /\ targets' = parseTargetFile(targetData).targets
  /\ warnings' = parseTargetFile(targetData).warnings
  /\ parsePc' = "returned"
  /\ UNCHANGED <<targetData, execVars, genVars, startVars, fileVars, shellVars>>

\* parseTargetFile throws "Failed to parse target file".
ParseTargetFileThrows ==
  /\ parsePc = "start"
  /\ parseTargetFile(targetData).threw
  /\ warnings' = parseTargetFile(targetData).warnings
  /\ parsePc' = "threw"
  /\ UNCHANGED <<targetData, targets, execVars, genVars, startVars, fileVars, shellVars>>

NextExpand ==
  \/ ParseTargetFileReturns
  \/ ParseTargetFileThrows

SpecExpand == InitExpand /\ [][NextExpand]_vars

(***************************************************************************)
(* generateTasks and ensureRepoExists (lib/repository.mjs).                *)
(*                                                                         *)
(* The loop of generateTasks awaits each step in turn and nothing else     *)
(* runs beside it, so one iteration is one action.  What the gh and git    *)
(* commands of an iteration do is drawn from Outcomes: each command may    *)
(* fail.                                                                   *)
(***************************************************************************)
\* `https://github.com/${org}/${repo}.git`
UpstreamUrl(org, repo) ==
  <<"h", "t", "t", "p", "s", ":", "/", "/", "g", "i", "t", "h", "u", "b",
    ".", "c", "o", "m", "/">> \o org \o <<"/">> \o repo \o <<".", "g", "i", "t">>

\* The organisation of the targets, and another one.
TargetOrg == <<"o">>

OtherOrg == <<"p">>

\* What the commands of one call of ensureRepoExists do:
\*   user      gh api user succeeds
\*   listForks gh repo list succeeds
\*   fork      gh repo fork succeeds
\*   clone     gh repo clone succeeds
\*   parent    the clone has an upstream remote (gh adds one, to the parent)
\*   getUrl    git remote get-url succeeds when the remote exists
\*   write     git remote set-url / add succeeds when git allows it
Outcomes ==
  [user : BOOLEAN, listForks : BOOLEAN, fork : BOOLEAN, clone : BOOLEAN,
   parent : BOOLEAN, getUrl : BOOLEAN, write : BOOLEAN]

\* updateUpstreamRemote on the working copy w: what it returns, the upstream
\* remote afterwards and the number of remotes it changed.  In a directory
\* that is not a working copy every git command fails.
updateUpstreamRemote(w, org, repo, oc) ==
  LET currentUpstream ==
        IF oc.getUrl /\ w.upstream # NoRemote THEN w.upstream ELSE NoRemote
      expectedUpstream == UpstreamUrl(org, repo)
  IN  IF ~w.git
      THEN [ok |-> FALSE, upstream |-> w.upstream, writes |-> 0]
      ELSE IF currentUpstream = expectedUpstream
      THEN [ok |-> TRUE, upstream |-> w.upstream, writes |-> 0]
      ELSE IF currentUpstream # NoRemote
      THEN \* git remote set-url
           IF oc.write
           THEN [ok |-> TRUE, upstream |-> expectedUpstream, writes |-> 1]
           ELSE [ok |-> FALSE, upstream |-> w.upstream, writes |-> 0]
      ELSE \* git remote add, which fails when the remote exists
           IF oc.write /\ w.upstream = NoRemote
           THEN [ok |-> TRUE, upstream |-> expectedUpstream, writes |-> 1]
           ELSE [ok |-> FALSE, upstream |-> w.upstream, writes |-> 0]

\* configureUpstream on the working copy w.
configureUpstream(w, org, repo, oc) ==
  LET hasUpstream == oc.getUrl /\ w.upstream # NoRemote
      upstreamUrl == UpstreamUrl(org, repo)
  IN  IF hasUpstream
      THEN IF oc.write
           THEN [ok |-> TRUE, upstream |-> upstreamUrl, writes |-> 1]
           ELSE [ok |-> FALSE, upstream |-> w.upstream, writes |-> 0]
      ELSE IF oc.write /\ w.upstream = NoRemote
           THEN [ok |-> TRUE, upstream |-> upstreamUrl, writes |-> 1]
           ELSE [ok |-> FALSE, upstream |-> w.upstream, writes |-> 0]

\* hasFork: false when the listing fails.
hasFork(repo, fk, oc) == oc.listForks /\ repo \in fk

\* What a call of ensureRepoExists does and returns.
CallRecord(returned, w, fk, forked, cloned, writes) ==
  [ret |-> returned, copy |-> w, forks |-> fk, forked |-> forked,
   cloned |-> cloned, writes |-> writes]

\* ensureRepoExists(org, repo) in the workspace ws with the forks fk, under
\* the outcomes oc.  ret is "true", "false" or "threw".
ensureRepoExists(org, repo, ws, fk, oc) ==
  LET w == ws[repo]
  IN  IF w.exists
      THEN \* the result of updateUpstreamRemote is not looked at
           LET u == updateUpstreamRemote(w, org, repo, oc)
           IN  CallRecord("true", [w EXCEPT !.upstream = u.upstream], fk,
                          FALSE, FALSE, u.writes)
      ELSE IF ~oc.user
      THEN CallRecord("threw", w, fk, FALSE, FALSE, 0)
      ELSE LET forkExists == hasFork(repo, fk, oc)
               created == ~forkExists /\ oc.fork
               fk2 == IF created THEN fk \cup {repo} ELSE fk
           IN  IF ~forkExists /\ ~created
               THEN CallRecord("false", w, fk, FALSE, FALSE, 0)
               ELSE IF ~oc.clone
               THEN CallRecord("false", w, fk2, created, FALSE, 0)
               ELSE LET c == [exists |-> TRUE,
                              git |-> TRUE,
                              upstream |-> IF oc.parent
                                           THEN UpstreamUrl(OtherOrg, repo)
                                           ELSE NoRemote]
                        u == configureUpstream(c, org, repo, oc)
                    IN  CallRecord(IF u.ok THEN "true" ELSE "false",
                                   [c EXCEPT !.upstream = u.upstream], fk2,
                                   created, TRUE, u.writes)

\* The input values of the model.
\* A branch name with a slash.
SlashBranch == <<"r", "/", "x">>

GenTargetValues ==
  {[org |-> TargetOrg, repo |-> repo, branch |-> <<"m">>] : repo \in GenRepos}
    \cup {[org |-> TargetOrg, repo |-> <<"a">>, branch |-> SlashBranch]}

GenTargetLists == UNION {[1..n -> GenTargetValues] : n \in 0..MaxTargets}

\* The working copies workspace/<repo> may start as: none, or one without
\* upstream remote, with the upstream of the targets' organisation or with
\* that of another one.
WorkingCopies(repo) ==
  {NoWorkingCopy} \cup
  {[exists |-> TRUE, git |-> TRUE, upstream |-> u] :
     u \in {NoRemote, UpstreamUrl(TargetOrg, repo), UpstreamUrl(OtherOrg, repo)}}

\* An artifact left in the task directory by an earlier run.
StaleArtifact == Artifact(1, << <<"b">>, <<"m">> >>)

\* main has loaded the configuration and calls generateTasks.
InitGenerate ==
  /\ \E parallel \in BOOLEAN :
       config = [parallel |-> parallel,
                 maxJobs |-> IF parallel THEN MaxJobsBound ELSE 1,
                 saveLogs |-> parallel,
                 generateOnly |-> FALSE, runOnly |-> FALSE]
  /\ \E stale \in BOOLEAN :
       /\ outputDirExists = stale
       /\ taskDir = IF stale THEN {StaleArtifact} ELSE {}
  /\ phase = "generation"
  /\ taskFiles = <<>>
  /\ status = <<>>
  /\ started = <<>>
  /\ taskGroups = <<>>
  /\ repoNames = <<>>
  /\ queue = <<>>
  /\ activeGroups = {}
  /\ results = <<>>
  /\ groupResults = <<>>
  /\ successful = 0
  /\ failed = 0
  /\ ret = NoValue
  /\ exitCode = -1
  /\ ExpandIdle
  /\ genTargets \in GenTargetLists
  /\ genIndex = 0
  /\ taskCounter = 1
  /\ successCount = 0
  /\ workspace \in {ws \in [GenRepos -> UNION {WorkingCopies(repo) : repo \in GenRepos}] :
                      \A repo \in GenRepos : ws[repo] \in WorkingCopies(repo)}
  /\ forks \in SUBSET GenRepos
  /\ calls = <<>>
  /\ StartIdle
  /\ FilesIdle
  /\ ShellIdle

\* The variables of the executor that generateTasks leaves alone.
execRunVars == <<config, taskFiles, status, started, taskGroups, repoNames,
                 queue, activeGroups, results, groupResults, successful,
                 failed, ret>>

\* generateTasks finds target.yml, the task file or the guide file missing.
GenerateTasksFileNotFound ==
  /\ phase = "generation"
  /\ genIndex = 0
  /\ \/ inputFiles.target = "missing"
     \/ ~inputFiles.task.exists
     \/ ~inputFiles.guide.exists
  /\ MainCatch
  /\ UNCHANGED <<execRunVars, outputDirExists, taskDir, expandVars, startVars,
                 fileVars, shellVars>>
  /\ UNCHANGED genVars

\* GenerateTasksParseThrows with target.yml parsed after the task directory
\* has been removed and created anew.
GenerateTasksParseThrowsAfterClean ==
  /\ phase = "generation"
  /\ genIndex = 0
  /\ inputFiles.target = "invalid"
  /\ inputFiles.task.exists
  /\ inputFiles.guide.exists
  /\ outputDirExists' = TRUE
  /\ taskDir' = {}
  /\ MainCatch
  /\ UNCHANGED <<execRunVars, expandVars, startVars, fileVars, shellVars>>
  /\ UNCHANGED genVars

\* The three files exist and parseTargetFile throws.
GenerateTasksParseThrows ==
  /\ phase = "generation"
  /\ genIndex = 0
  /\ inputFiles.target = "invalid"
  /\ inputFiles.task.exists
  /\ inputFiles.guide.exists
  /\ MainCatch
  /\ UNCHANGED <<execRunVars, outputDirExists, taskDir, expandVars, startVars,
                 fileVars, shellVars>>
  /\ UNCHANGED genVars

\* GenerateTasksClean without fs.remove(outputDir): ensureDir alone, which
\* keeps what the directory holds.
GenerateTasksKeepsDirectory ==
  /\ phase = "generation"
  /\ genIndex = 0
  /\ inputFiles.target = "valid"
  /\ inputFiles.task.exists
  /\ inputFiles.guide.exists
  /\ taskContent' = readContent(inputFiles.task.text)
  /\ guideContent' = readContent(inputFiles.guide.text)
  /\ outputDirExists' = TRUE
  /\ genIndex' = 1
  /\ UNCHANGED <<execRunVars, phase, exitCode, taskDir, expandVars,
               startVars, inputFiles, shellVars>>
  /\ UNCHANGED <<genTargets, taskCounter, successCount, workspace, forks, calls>>

\* generateTasks reads the task file and the guide file, parses target.yml,
\* removes the task directory and creates it anew.
GenerateTasksClean ==
  /\ phase = "generation"
  /\ genIndex = 0
  /\ inputFiles.target = "valid"
  /\ inputFiles.task.exists
  /\ inputFiles.guide.exists
  /\ taskContent' = readContent(inputFiles.task.text)
  /\ guideContent' = readContent(inputFiles.guide.text)
  /\ outputDirExists' = TRUE
  /\ taskDir' = {}
  /\ genIndex' = 1
  /\ UNCHANGED <<execRunVars, phase, exitCode, expandVars,
               startVars, inputFiles, shellVars>>
  /\ UNCHANGED <<genTargets, taskCounter, successCount, workspace, forks, calls>>

\* The state of the workspace and the forks after a call that did c.
AfterCall(c) ==
  /\ workspace' = [workspace EXCEPT ![genTargets[genIndex].repo] = c.copy]
  /\ forks' = c.forks
  /\ calls' = Append(calls, c)

\* branch.replace(/\//g, '_')
sanitizeBranchName(branch) ==
  [k \in 1..Len(branch) |-> IF branch[k] = "/" THEN "_" ELSE branch[k]]

\* fs.writeFile(path.join(outputDir, taskFileName)) throws: a slash in the
\* file name makes the path name a directory below the task directory,
\* which generateTasks has just created empty.
writeFileThrows(name) == \E k \in 1..Len(name) : name[k] = "/"

\* One iteration of the loop: ensureRepoExists returns true and the task
\* file is written.
EnsureRepoExistsSucceeds ==
  /\ phase = "generation"
  /\ genIndex \in 1..Len(genTargets)
  /\ \E oc \in Outcomes :
       LET target == genTargets[genIndex]
           c == ensureRepoExists(target.org, target.repo, workspace, forks, oc)
       IN  /\ c.ret = "true"
           /\ ~writeFileThrows(taskFileName(taskCounter, target.repo, target.branch))
           /\ AfterCall(c)
           /\ taskDir' = taskDir \cup
                           {Artifact(taskCounter, <<target.repo, target.branch>>)}
  /\ taskCounter' = taskCounter + 1
  /\ successCount' = successCount + 1
  /\ genIndex' = genIndex + 1
  /\ UNCHANGED <<execRunVars, phase, exitCode, outputDirExists, expandVars,
               startVars, fileVars, shellVars>>
  /\ UNCHANGED genTargets

\* A skip that uses up a number of the counter.
EnsureRepoExistsFailsCounting ==
  /\ phase = "generation"
  /\ genIndex \in 1..Len(genTargets)
  /\ \E oc \in Outcomes :
       LET target == genTargets[genIndex]
           c == ensureRepoExists(target.org, target.repo, workspace, forks, oc)
       IN  /\ c.ret = "false"
           /\ AfterCall(c)
  /\ genIndex' = genIndex + 1
  /\ taskCounter' = taskCounter + 1
  /\ UNCHANGED <<execRunVars, phase, exitCode, outputDirExists, taskDir, expandVars,
               startVars, fileVars, shellVars>>
  /\ UNCHANGED <<genTargets, successCount>>

\* One iteration of the loop: ensureRepoExists returns false and the target
\* is skipped.
EnsureRepoExistsFails ==
  /\ phase = "generation"
  /\ genIndex \in 1..Len(genTargets)
  /\ \E oc \in Outcomes :
       LET target == genTargets[genIndex]
           c == ensureRepoExists(target.org, target.repo, workspace, forks, oc)
       IN  /\ c.ret = "false"
           /\ AfterCall(c)
  /\ genIndex' = genIndex + 1
  /\ UNCHANGED <<execRunVars, phase, exitCode, outputDirExists, taskDir, expandVars,
               startVars, fileVars, shellVars>>
  /\ UNCHANGED <<genTargets, taskCounter, successCount>>

\* getCurrentGitHubUser throws inside ensureRepoExists: the error leaves
\* generateTasks and main's catch exits.
EnsureRepoExistsThrows ==
  /\ phase = "generation"
  /\ genIndex \in 1..Len(genTargets)
  /\ \E oc \in Outcomes :
       LET target == genTargets[genIndex]
           c == ensureRepoExists(target.org, target.repo, workspace, forks, oc)
       IN  /\ c.ret = "threw"
           /\ AfterCall(c)
  /\ MainCatch
  /\ UNCHANGED <<execRunVars, outputDirExists, taskDir, expandVars,
               startVars, fileVars, shellVars>>
  /\ UNCHANGED <<genTargets, genIndex, taskCounter, successCount>>

\* ensureRepoExists returns true and the write of the task file throws: the
\* error leaves generateTasks and main's catch exits.
GenerateTasksWriteFileThrows ==
  /\ phase = "generation"
  /\ genIndex \in 1..Len(genTargets)
  /\ \E oc \in Outcomes :
       LET target == genTargets[genIndex]
           c == ensureRepoExists(target.org, target.repo, workspace, forks, oc)
       IN  /\ c.ret = "true"
           /\ writeFileThrows(taskFileName(taskCounter, target.repo, target.branch))
           /\ AfterCall(c)
  /\ MainCatch
  /\ UNCHANGED <<execRunVars, outputDirExists, taskDir, expandVars, startVars, fileVars, shellVars>>
  /\ UNCHANGED <<genTargets, genIndex, taskCounter, successCount>>

\* main going on to executeTasks while the loop of generateTasks has targets
\* left.
GenerateTasksReturnEarly ==
  /\ phase = "generation"
  /\ genIndex \in 1..(Len(genTargets) + 1)
  /\ IF config.generateOnly
       THEN phase' = "exited" /\ exitCode' = 0
       ELSE phase' = "main" /\ UNCHANGED exitCode
  /\ UNCHANGED <<execRunVars, outputDirExists, taskDir, expandVars, startVars, fileVars, shellVars>>
  /\ UNCHANGED genVars

\* The loop is over: generateTasks returns and main goes on to executeTasks,
\* unless the configuration says generateOnly.
GenerateTasksReturn ==
  /\ phase = "generation"
  /\ genIndex = Len(genTargets) + 1
  /\ IF config.generateOnly
       THEN \* main skips the execution section and ends
            phase' = "exited" /\ exitCode' = 0
       ELSE phase' = "main" /\ UNCHANGED exitCode
  /\ UNCHANGED <<execRunVars, outputDirExists, taskDir, expandVars, startVars, fileVars, shellVars>>
  /\ UNCHANGED genVars

NextGenerate ==
  \/ GenerateTasksClean
  \/ EnsureRepoExistsSucceeds
  \/ EnsureRepoExistsFails
  \/ EnsureRepoExistsThrows
  \/ GenerateTasksWriteFileThrows
  \/ GenerateTasksReturn
  \/ ExecuteTasksNoFiles
  \/ ExecuteSequential
  \/ ExecuteParallel
  \/ ExecuteParallelThrows
  \/ \E i \in 1..Len(taskFiles) :
       \/ RunTaskNoWorkspacePath(i)
       \/ RunTaskNoWorkspaceDir(i)
       \/ RunTaskSpawn(i)
       \/ \E code \in {0, 1} : AgentExit(i, code)
  \/ ExecuteTasksReturn

SpecGenerate == InitGenerate /\ [][NextGenerate]_vars

(***************************************************************************)
(* The start of main: parseArguments, loadConfig, validateConfig, and the  *)
(* sections of main that run under the loaded configuration.               *)
(***************************************************************************)
\* What argv holds for --parallel / --no-parallel, --generate-only,
\* --run-only and --max-jobs.  --save-logs is not given.
ArgvValues ==
  [parallel : {JsUndefined, JsTrue, JsFalse},
   maxJobs : {JsUndefined, JsNumber(0), JsNumber(2), JsNumber(-1),
              JsString(<<"a", "b", "c">>)},
   saveLogs : {JsUndefined},
   generateOnly : {JsUndefined, JsTrue},
   runOnly : {JsUndefined, JsTrue},
   guideFile : {JsUndefined}]

\* The keys of the modes.
ModeKeys == ConfigKeys \ {"guideFile"}

\* The values a config.json gives to a key.
FileValues(key) ==
  IF key = "maxJobs" THEN {JsNumber(0), JsNumber(2), JsString(<<"2">>)}
  ELSE {JsTrue, JsFalse}

\* The objects a config.json parses to: some of the mode keys.
ConfigObjects ==
  {object \in [ConfigKeys -> {Missing} \cup UNION {FileValues(key) : key \in ModeKeys}] :
     /\ \A key \in ModeKeys : object[key] \in {Missing} \cup FileValues(key)
     /\ object["guideFile"] = Missing
     /\ Cardinality({key \in ModeKeys : object[key] # Missing}) <= MaxFileKeys}

\* The config.json files: none, or one that parses to an object.
ConfigFiles == {NoFile} \cup {ConfigFile(object) : object \in ConfigObjects}

\* The task directory an earlier run left: none, an empty one, one that
\* holds an artifact, or one that holds the artifact of a repository named
\* like an inherited property.
InitialTaskDirs == {"absent", "empty", "stale", "inherited"}

InheritedArtifact == Artifact(1, <<Constructor, <<"m">> >>)

\* The artifacts of such a task directory.
InitialTaskDir(dir) ==
  CASE dir = "stale" -> {StaleArtifact}
    [] dir = "inherited" -> {InheritedArtifact}
    [] OTHER -> {}

\* The directory --bundle names.
BundlePath == <<"B">>

\* The guide files that --guide-file, the root config.json and the
\* config.json of the bundle name.
CliGuide == <<"c">>

RootGuide == <<"r">>

BundleConfigGuide == <<"b">>

\* A config.json that says guideFile only.
GuideConfigFile(guide) ==
  ConfigFile([EmptyObject EXCEPT !["guideFile"] = JsString(guide)])

\* The runs that vary the modes: no guide file is named anywhere and the
\* bundle has no GUIDE.md.
ModeInvocations ==
  {inv \in [argv : ArgvValues, bundle : BOOLEAN, rootFile : ConfigFiles,
            bundleFile : ConfigFiles, bundleGuide : {FALSE},
            outputDir : InitialTaskDirs] :
     ~inv.bundle => inv.bundleFile = NoFile}

\* The runs that vary the guide file, with the modes left at their defaults.
GuideInvocations ==
  {inv \in [argv : {[NoArgv EXCEPT !.guideFile = g] :
                      g \in {JsUndefined, JsString(CliGuide)}},
            bundle : BOOLEAN,
            rootFile : {NoFile, GuideConfigFile(RootGuide)},
            bundleFile : {NoFile, GuideConfigFile(BundleConfigGuide)},
            bundleGuide : BOOLEAN,
            outputDir : InitialTaskDirs] :
     ~inv.bundle => (inv.bundleFile = NoFile /\ ~inv.bundleGuide)}

\* What main is started with.  The directory of the bundle exists when
\* --bundle names one.
InvocationValues == ModeInvocations \cup GuideInvocations

\* The one target of target.yml; its working copy exists in the workspace.
StartTarget == [org |-> TargetOrg, repo |-> <<"a">>, branch |-> <<"m">>]

StartWorkspace ==
  [repo \in GenRepos |->
     IF repo = StartTarget.repo
     THEN [exists |-> TRUE, git |-> TRUE,
           upstream |-> UpstreamUrl(StartTarget.org, repo)]
     ELSE NoWorkingCopy]

InitStartup ==
  /\ invocation \in InvocationValues
  /\ loaded = EmptyObject
  /\ paths = NoPaths
  /\ config = [parallel |-> FALSE, maxJobs |-> 1, saveLogs |-> FALSE,
               generateOnly |-> FALSE, runOnly |-> FALSE]
  /\ outputDirExists = (invocation.outputDir # "absent")
  /\ taskDir = InitialTaskDir(invocation.outputDir)
  /\ phase = "startup"
  /\ taskFiles = <<>>
  /\ status = <<>>
  /\ started = <<>>
  /\ taskGroups = <<>>
  /\ repoNames = <<>>
  /\ queue = <<>>
  /\ activeGroups = {}
  /\ results = <<>>
  /\ groupResults = <<>>
  /\ successful = 0
  /\ failed = 0
  /\ ret = NoValue
  /\ exitCode = -1
  /\ ExpandIdle
  /\ genTargets = <<StartTarget>>
  /\ genIndex = 0
  /\ taskCounter = 1
  /\ successCount = 0
  /\ workspace = StartWorkspace
  /\ forks = {}
  /\ calls = <<>>
  /\ FilesIdle
  /\ ShellIdle

\* What main has touched by the time validateConfig returns: nothing.
startupUnchanged ==
  UNCHANGED <<outputDirExists, taskDir, taskFiles, status, started, taskGroups,
              repoNames, queue, activeGroups, results, groupResults,
              successful, failed, ret, expandVars, genVars, fileVars,
              shellVars, invocation>>

\* main: cliOptions = parseArguments(argv); config = await loadConfig(...).
MainLoadConfig ==
  /\ phase = "startup"
  /\ loaded' = loadConfig(parseArguments(invocation.argv), invocation.bundle,
                          invocation.rootFile, invocation.bundleFile)
  /\ phase' = "validate"
  /\ UNCHANGED <<config, exitCode, paths>>
  /\ startupUnchanged

\* The configuration object after validateConfig and the rule of parallel
\* mode, as generateTasks and executeTasks read it.
effectiveConfig(cfg) ==
  [parallel |-> truthy(cfg["parallel"]),
   \* maxJobs is read in parallel mode only
   maxJobs |-> IF truthy(cfg["parallel"]) THEN cfg["maxJobs"].v ELSE 1,
   saveLogs |-> (truthy(cfg["saveLogs"]) \/ truthy(cfg["parallel"])),
   generateOnly |-> truthy(cfg["generateOnly"]),
   runOnly |-> truthy(cfg["runOnly"])]

\* main: paths = await resolveFilePaths(cliOptions.bundle, config.guideFile)
MainPaths ==
  [resolved |-> TRUE,
   guideFile |-> resolveFilePaths(invocation.bundle, BundlePath,
                                  invocation.bundleGuide, loaded["guideFile"].s)]

\* validateConfig throws and main's catch exits.
MainValidateConfigThrows ==
  /\ phase = "validate"
  /\ validateConfigThrows(loaded)
  /\ MainCatch
  /\ UNCHANGED <<config, loaded, paths>>
  /\ startupUnchanged

\* validateConfig returns and main enters the generation section.
MainGenerationSection ==
  /\ phase = "validate"
  /\ ~validateConfigThrows(loaded)
  /\ ~truthy(loaded["runOnly"])
  /\ config' = effectiveConfig(loaded)
  /\ paths' = MainPaths
  /\ phase' = "generation"
  /\ UNCHANGED <<loaded, exitCode>>
  /\ startupUnchanged

\* validateConfig returns and main, under runOnly, goes to the execution
\* section.
MainExecutionSection ==
  /\ phase = "validate"
  /\ ~validateConfigThrows(loaded)
  /\ truthy(loaded["runOnly"])
  /\ config' = effectiveConfig(loaded)
  /\ paths' = MainPaths
  /\ phase' = "main"
  /\ UNCHANGED <<loaded, exitCode>>
  /\ startupUnchanged

\* The three input files are there and the working copy of the target
\* exists, so that ensureRepoExists returns true whatever the git commands
\* do: the other steps of generateTasks are never enabled here.
NextStartup ==
  \/ MainLoadConfig
  \/ MainValidateConfigThrows
  \/ MainGenerationSection
  \/ MainExecutionSection
  \/ GenerateTasksClean
  \/ EnsureRepoExistsSucceeds
  \/ GenerateTasksReturn
  \/ ExecuteTasksNoDirectory
  \/ ExecuteTasksNoFiles
  \/ ExecuteSequential
  \/ ExecuteParallel
  \/ ExecuteParallelThrows
  \/ \E i \in 1..Len(taskFiles) :
       \/ RunTaskNoWorkspacePath(i)
       \/ RunTaskNoWorkspaceDir(i)
       \/ RunTaskSpawn(i)
       \/ \E code \in {0, 1} : AgentExit(i, code)
  \/ ExecuteTasksReturn

SpecStartup == InitStartup /\ [][NextStartup]_vars

(***************************************************************************)
(* generateTasks over the files it reads: one target whose directory in    *)
(* the workspace exists, under generateOnly.                               *)
(***************************************************************************)
TextChars == {"x", " ", "\n"}

\* A line that reads like the Workspace Path field of a task file.
FieldLikeText == WorkspacePathField \o <<"x">>

\* Two paragraphs with an empty line between them.
ParagraphsText == <<"x", "\n", "\n", "x">>

Texts ==
  UNION {[1..n -> TextChars] : n \in 0..MaxTextLen}
    \cup {FieldLikeText, ParagraphsText}

TextFiles == {NoTextFile} \cup {TextFile(text) : text \in Texts}

InputValues ==
  [target : {"missing", "invalid", "valid"}, task : TextFiles, guide : TextFiles]

InitMaterialize ==
  /\ config = [parallel |-> FALSE, maxJobs |-> 1, saveLogs |-> FALSE,
               generateOnly |-> TRUE, runOnly |-> FALSE]
  /\ \E stale \in BOOLEAN :
       /\ outputDirExists = stale
       /\ taskDir = IF stale THEN {StaleArtifact} ELSE {}
  /\ phase = "generation"
  /\ taskFiles = <<>>
  /\ status = <<>>
  /\ started = <<>>
  /\ taskGroups = <<>>
  /\ repoNames = <<>>
  /\ queue = <<>>
  /\ activeGroups = {}
  /\ results = <<>>
  /\ groupResults = <<>>
  /\ successful = 0
  /\ failed = 0
  /\ ret = NoValue
  /\ exitCode = -1
  /\ ExpandIdle
  /\ StartIdle
  /\ inputFiles \in InputValues
  /\ ShellIdle
  /\ guideContent = <<>>
  /\ taskContent = <<>>
  \* what parseTargetFile returns when target.yml is valid
  /\ genTargets = <<StartTarget>>
  /\ genIndex = 0
  /\ taskCounter = 1
  /\ successCount = 0
  /\ workspace \in {StartWorkspace,
                     [StartWorkspace EXCEPT ![StartTarget.repo] = PlainDirectory]}
  /\ forks = {}
  /\ calls = <<>>

\* workspace/<repo> exists: ensureRepoExists returns true.
NextMaterialize ==
  \/ GenerateTasksFileNotFound
  \/ GenerateTasksParseThrows
  \/ GenerateTasksClean
  \/ EnsureRepoExistsSucceeds
  \/ GenerateTasksReturn

SpecMaterialize == InitMaterialize /\ [][NextMaterialize]_vars

(***************************************************************************)
(* generateTasks with one git worktree per job: createWorktree and the     *)
(* loop that calls it.  Each entry of calls holds, next to what            *)
(* ensureRepoExists did, what createWorktree did for the job.              *)
(***************************************************************************)
\* null, as createWorktree returns it, and the ref of a job it was not
\* called for.
NullPath == <<>>

NoRef == <<>>

TaskMd == <<"t", "a", "s", "k", ".", "m", "d">>

\* What the commands of one createWorktree call do:
\*   ensureDir  fs.ensureDir(taskDirPath) succeeds
\*   local      git rev-parse --verify <branch> succeeds
\*   upstream   git rev-parse --verify upstream/<branch> succeeds
\*   origin     origin/<branch> exists
\*   add        git worktree add succeeds when the ref it is given exists
WorktreeOutcomes ==
  [ensureDir : BOOLEAN, local : BOOLEAN, upstream : BOOLEAN, origin : BOOLEAN,
   add : BOOLEAN]

\* createWorktree with the upstream remote tried after origin.
createWorktreeOriginFirst(taskDirPath, branch, repo, env) ==
  IF ~env.ensureDir
  THEN [called |-> TRUE, dir |-> FALSE, ref |-> NoRef, path |-> NullPath, env |-> env]
  ELSE LET branchRef ==
             IF env.local THEN branch
             ELSE IF env.origin THEN <<"o", "r", "i", "g", "i", "n", "/">> \o branch
             ELSE <<"u", "p", "s", "t", "r", "e", "a", "m", "/">> \o branch
           refExists == env.local \/ env.origin \/ env.upstream
       IN  [called |-> TRUE, dir |-> TRUE, ref |-> branchRef,
            path |-> IF refExists /\ env.add THEN pathJoin(taskDirPath, repo)
                     ELSE NullPath,
            env |-> env]

\* createWorktree(repoDir, taskDirPath, branch, repo): whether the task
\* directory was created, the ref handed to git worktree add, and the path
\* returned, null when a command inside the try block failed.
createWorktree(taskDirPath, branch, repo, env) ==
  IF ~env.ensureDir
  THEN [called |-> TRUE, dir |-> FALSE, ref |-> NoRef, path |-> NullPath, env |-> env]
  ELSE LET branchRef ==
             IF env.local THEN branch
             ELSE IF env.upstream THEN <<"u", "p", "s", "t", "r", "e", "a", "m", "/">> \o branch
             ELSE <<"o", "r", "i", "g", "i", "n", "/">> \o branch
           refExists == env.local \/ env.upstream \/ env.origin
       IN  [called |-> TRUE, dir |-> TRUE, ref |-> branchRef,
            path |-> IF refExists /\ env.add THEN pathJoin(taskDirPath, repo)
                     ELSE NullPath,
            env |-> env]

\* The entry of a job that createWorktree was not called for.
NoWorktree ==
  [called |-> FALSE, dir |-> FALSE, ref |-> NoRef, path |-> NullPath,
   env |-> [ensureDir |-> FALSE, local |-> FALSE, upstream |-> FALSE,
            origin |-> FALSE, add |-> FALSE]]

\* `${String(taskCounter).padStart(3, '0')}_${repo}_${sanitizedBranch}`
taskDirName(counter, repo, branch) ==
  padStart(NumberToString(counter), PadWidth, "0")
    \o <<"_">> \o repo \o <<"_">> \o sanitizeBranchName(branch)

\* path.join(outputDir, taskDirName)
taskDirPathOf(counter, target) ==
  pathJoin(OutputDir, taskDirName(counter, target.repo, target.branch))

\* The task.md written at the root of a job's task directory.
WorktreeArtifact(counter, target) ==
  [name |-> pathJoin(taskDirName(counter, target.repo, target.branch), TaskMd),
   counter |-> counter,
   repo |-> target.repo,
   branch |-> target.branch]

\* The state after an iteration in which ensureRepoExists did c and
\* createWorktree did t.
AfterIteration(c, t) ==
  /\ workspace' = [workspace EXCEPT ![genTargets[genIndex].repo] = c.copy]
  /\ forks' = c.forks
  /\ calls' = Append(calls, c @@ [tree |-> t])

InitWorktree ==
  /\ config = [parallel |-> FALSE, maxJobs |-> 1, saveLogs |-> FALSE,
               generateOnly |-> TRUE, runOnly |-> FALSE]
  /\ \E stale \in BOOLEAN :
       /\ outputDirExists = stale
       /\ taskDir = IF stale THEN {StaleArtifact} ELSE {}
  /\ phase = "generation"
  /\ taskFiles = <<>>
  /\ status = <<>>
  /\ started = <<>>
  /\ taskGroups = <<>>
  /\ repoNames = <<>>
  /\ queue = <<>>
  /\ activeGroups = {}
  /\ results = <<>>
  /\ groupResults = <<>>
  /\ successful = 0
  /\ failed = 0
  /\ ret = NoValue
  /\ exitCode = -1
  /\ ExpandIdle
  /\ StartIdle
  /\ FilesIdle
  /\ ShellIdle
  /\ genTargets \in GenTargetLists
  /\ genIndex = 0
  /\ taskCounter = 1
  /\ successCount = 0
  /\ workspace = StartWorkspace
  /\ forks = {}
  /\ calls = <<>>

\* One iteration of the loop: ensureRepoExists returns true, createWorktree
\* returns the worktree path and task.md is written.
CreateWorktreeSucceeds ==
  /\ phase = "generation"
  /\ genIndex \in 1..Len(genTargets)
  /\ \E oc \in Outcomes, env \in WorktreeOutcomes :
       LET target == genTargets[genIndex]
           c == ensureRepoExists(target.org, target.repo, workspace, forks, oc)
           t == createWorktree(taskDirPathOf(taskCounter, target),
                               target.branch, target.repo, env)
       IN  /\ c.ret = "true"
           /\ t.path # NullPath
           /\ AfterIteration(c, t)
           /\ taskDir' = taskDir \cup {WorktreeArtifact(taskCounter, target)}
  /\ taskCounter' = taskCounter + 1
  /\ successCount' = successCount + 1
  /\ genIndex' = genIndex + 1
  /\ UNCHANGED <<execRunVars, phase, exitCode, outputDirExists, expandVars,
               startVars, fileVars, shellVars>>
  /\ UNCHANGED genTargets

\* One iteration of the loop: ensureRepoExists returns true, createWorktree
\* returns null and the target is skipped.
CreateWorktreeFails ==
  /\ phase = "generation"
  /\ genIndex \in 1..Len(genTargets)
  /\ \E oc \in Outcomes, env \in WorktreeOutcomes :
       LET target == genTargets[genIndex]
           c == ensureRepoExists(target.org, target.repo, workspace, forks, oc)
           t == createWorktree(taskDirPathOf(taskCounter, target),
                               target.branch, target.repo, env)
       IN  /\ c.ret = "true"
           /\ t.path = NullPath
           /\ AfterIteration(c, t)
  /\ genIndex' = genIndex + 1
  /\ UNCHANGED <<execRunVars, phase, exitCode, outputDirExists, taskDir,
               expandVars, startVars, fileVars, shellVars>>
  /\ UNCHANGED <<genTargets, taskCounter, successCount>>

\* One iteration of the loop: ensureRepoExists returns false and the target
\* is skipped before createWorktree is called.
WorktreeSetupFails ==
  /\ phase = "generation"
  /\ genIndex \in 1..Len(genTargets)
  /\ \E oc \in Outcomes :
       LET target == genTargets[genIndex]
           c == ensureRepoExists(target.org, target.repo, workspace, forks, oc)
       IN  /\ c.ret = "false"
           /\ AfterIteration(c, NoWorktree)
  /\ genIndex' = genIndex + 1
  /\ UNCHANGED <<execRunVars, phase, exitCode, outputDirExists, taskDir,
               expandVars, startVars, fileVars, shellVars>>
  /\ UNCHANGED <<genTargets, taskCounter, successCount>>

\* getCurrentGitHubUser throws inside ensureRepoExists.
WorktreeSetupThrows ==
  /\ phase = "generation"
  /\ genIndex \in 1..Len(genTargets)
  /\ \E oc \in Outcomes :
       LET target == genTargets[genIndex]
           c == ensureRepoExists(target.org, target.repo, workspace, forks, oc)
       IN  /\ c.ret = "threw"
           /\ AfterIteration(c, NoWorktree)
  /\ MainCatch
  /\ UNCHANGED <<execRunVars, outputDirExists, taskDir, expandVars,
               startVars, fileVars, shellVars>>
  /\ UNCHANGED <<genTargets, genIndex, taskCounter, successCount>>

NextWorktree ==
  \/ GenerateTasksClean
  \/ CreateWorktreeSucceeds
  \/ CreateWorktreeFails
  \/ WorktreeSetupFails
  \/ WorktreeSetupThrows
  \/ GenerateTasksReturn

SpecWorktree == InitWorktree /\ [][NextWorktree]_vars

(***************************************************************************)
(* gen-and-run-tasks.sh: execute_parallel and run_task_parallel, which run *)
(* under set -e.                                                           *)
(***************************************************************************)
\* The jobs whose task files the shell script runs.
ShellJobs ==
  {<< <<"a">>, <<"m">> >>, << <<"a">>, <<"x">> >>, << <<"b">>, <<"m">> >>}

ShellJobLists == UNION {[1..n -> ShellJobs] : n \in 1..MaxTasks}

\* sed 's/^[0-9]*_//'
stripCounter(s) ==
  LET n == LeadingDigits(s)
  IN  IF Len(s) > n /\ s[n + 1] = "_" THEN SubSeq(s, n + 2, Len(s)) ELSE s

\* sed 's/_[^_]*$//'
stripLastPart(s) ==
  LET hits == {i \in 1..Len(s) : s[i] = "_"}
  IN  IF hits = {} THEN s
      ELSE SubSeq(s, 1, (CHOOSE i \in hits : \A j \in hits : j <= i) - 1)

\* The repository name group_tasks_by_repo takes from a task file path.
shellRepoOf(taskFile) == stripLastPart(stripCounter(basename(taskFile, MdExt)))

\* group_tasks_by_repo: the repository names in the order of their first
\* task file, and the task files of each in the order of the list.
RECURSIVE shellGroupLoop(_, _, _)
shellGroupLoop(files, keys, tasks) ==
  IF files = <<>> THEN [keys |-> keys, tasks |-> tasks]
  ELSE LET repo == shellRepoOf(Head(files))
       IN  IF repo \in DOMAIN tasks
           THEN shellGroupLoop(Tail(files), keys,
                               [tasks EXCEPT ![repo] = Append(@, Head(files))])
           ELSE shellGroupLoop(Tail(files), Append(keys, repo),
                               tasks @@ (repo :> <<Head(files)>>))

group_tasks_by_repo(files) == shellGroupLoop(files, <<>>, <<>>)

InitShell ==
  /\ \E maxJobs \in 1..MaxJobsBound :
       config = [parallel |-> TRUE, maxJobs |-> maxJobs, saveLogs |-> TRUE,
                 generateOnly |-> FALSE, runOnly |-> TRUE]
  /\ outputDirExists = TRUE
  /\ \E jobs \in ShellJobLists :
       taskDir = {Artifact(i, jobs[i]) : i \in 1..Len(jobs)}
  /\ phase = "shell main"
  /\ taskFiles = <<>>
  /\ status = <<>>
  /\ started = <<>>
  /\ taskGroups = <<>>
  /\ repoNames = <<>>
  /\ queue = <<>>
  /\ activeGroups = {}
  /\ results = <<>>
  /\ groupResults = <<>>
  /\ successful = 0
  /\ failed = 0
  /\ ret = NoValue
  /\ exitCode = -1
  /\ ExpandIdle
  /\ GenIdle
  /\ StartIdle
  /\ FilesIdle
  /\ ShellIdle

\* What the steps of execute_parallel leave alone.
shellUnchanged ==
  UNCHANGED <<config, outputDirExists, taskDir, started, activeGroups, results,
              ret, expandVars, genVars, startVars, fileVars>>

\* The script lists the task files and calls execute_parallel, which groups
\* them by repository.
ShellExecuteParallel ==
  /\ phase = "shell main"
  /\ LET files == listTaskFiles(taskDir)
         g == group_tasks_by_repo(files)
     IN  /\ files # <<>>
         /\ taskFiles' = files
         /\ taskGroups' = g.tasks
         /\ repoNames' = g.keys
         /\ queue' = g.keys
         /\ status' = [i \in 1..Len(files) |-> "pending"]
         /\ taskResult' = [i \in 1..Len(files) |-> "none"]
         /\ subshell' = [repo \in DOMAIN g.tasks |-> "none"]
         /\ groupResults' = [repo \in DOMAIN g.tasks |-> <<>>]
  /\ phase' = "shell parallel"
  /\ UNCHANGED <<pids, jobCount, summary, successful, failed, exitCode>>
  /\ shellUnchanged

\* The loop over the groups starts the subshell of the next group, whose
\* first run_task_parallel writes its STARTED line and starts the agent.
ShellStartGroup ==
  /\ phase = "shell parallel"
  /\ queue # <<>>
  /\ jobCount < config.maxJobs
  /\ LET repo == Head(queue)
         first == IndexOf(taskGroups[repo][1])
     IN  /\ subshell' = [subshell EXCEPT ![repo] = "running"]
         /\ pids' = Append(pids, repo)
         /\ status' = [status EXCEPT ![first] = "agent"]
         /\ taskResult' = [taskResult EXCEPT ![first] = "STARTED"]
  /\ jobCount' = jobCount + 1
  /\ queue' = Tail(queue)
  /\ UNCHANGED <<phase, taskFiles, taskGroups, repoNames, groupResults,
                 summary, successful, failed, exitCode>>
  /\ shellUnchanged

\* The agent of task i exits with status 0: run_task_parallel writes the
\* SUCCESS line and returns 0, the subshell appends the line to the result
\* file of the group, removes the task result file and goes on to the next
\* task file, or exits with 0 after the last.
ShellAgentSucceeds(i) ==
  /\ phase = "shell parallel"
  /\ status[i] = "agent"
  /\ LET repo == GroupOf(i)
         k == PositionInGroup(i)
     IN  /\ groupResults' = [groupResults EXCEPT
                               ![repo] = Append(@, [task |-> i, status |-> "SUCCESS"])]
         /\ IF k < Len(taskGroups[repo])
            THEN LET next == IndexOf(taskGroups[repo][k + 1])
                 IN  /\ status' = [status EXCEPT ![i] = "done", ![next] = "agent"]
                     /\ taskResult' = [taskResult EXCEPT ![i] = "none",
                                                         ![next] = "STARTED"]
                     /\ UNCHANGED subshell
            ELSE /\ status' = [status EXCEPT ![i] = "done"]
                 /\ taskResult' = [taskResult EXCEPT ![i] = "none"]
                 /\ subshell' = [subshell EXCEPT ![repo] = "0"]
  /\ UNCHANGED <<phase, taskFiles, taskGroups, repoNames, queue, pids,
                 jobCount, summary, successful, failed, exitCode>>
  /\ shellUnchanged

\* The agent of task i exits with a non-zero status: run_task_parallel
\* writes the FAILED line to the task result file and returns 1, on which
\* set -e ends the subshell of the group with status 1.
ShellAgentFails(i) ==
  /\ phase = "shell parallel"
  /\ status[i] = "agent"
  /\ status' = [status EXCEPT ![i] = "done"]
  /\ taskResult' = [taskResult EXCEPT ![i] = "FAILED"]
  /\ subshell' = [subshell EXCEPT ![GroupOf(i)] = "1"]
  /\ UNCHANGED <<phase, taskFiles, taskGroups, repoNames, queue, pids,
                 jobCount, groupResults, summary, successful, failed, exitCode>>
  /\ shellUnchanged

\* The script exits on a failed command, as set -e makes it.
ShellErrexit ==
  /\ phase' = "exited"
  /\ exitCode' = 1

\* While job_count has reached MAX_JOBS, the loop looks for a subshell that
\* has ended and waits for it: wait returns the status of the subshell.
ShellReap ==
  /\ phase = "shell parallel"
  /\ queue # <<>>
  /\ jobCount >= config.maxJobs
  /\ \E k \in 1..Len(pids) :
       /\ subshell[pids[k]] \in {"0", "1"}
       /\ \A j \in 1..(k - 1) : subshell[pids[j]] = "running"
       /\ IF subshell[pids[k]] = "1"
          THEN ShellErrexit /\ UNCHANGED <<pids, jobCount>>
          ELSE /\ pids' = [j \in 1..(Len(pids) - 1) |->
                             IF j < k THEN pids[j] ELSE pids[j + 1]]
               /\ jobCount' = jobCount - 1
               /\ UNCHANGED <<phase, exitCode>>
  /\ UNCHANGED <<taskFiles, status, taskGroups, repoNames, queue, subshell,
                 taskResult, groupResults, summary, successful, failed>>
  /\ shellUnchanged

\* Every group has been started: the script waits for the remaining
\* subshells in the order of pids.
ShellWait ==
  /\ phase = "shell parallel"
  /\ queue = <<>>
  /\ pids # <<>>
  /\ subshell[Head(pids)] \in {"0", "1"}
  /\ IF subshell[Head(pids)] = "1"
     THEN ShellErrexit /\ UNCHANGED pids
     ELSE pids' = Tail(pids) /\ UNCHANGED <<phase, exitCode>>
  /\ UNCHANGED <<taskFiles, status, taskGroups, repoNames, queue, jobCount,
                 subshell, taskResult, groupResults, summary, successful,
                 failed>>
  /\ shellUnchanged

\* The lines of the given status in the result files of all groups.
ResultLines(st) ==
  {<<repo, k>> \in (DOMAIN groupResults) \X (1..MaxTasks) :
     k <= Len(groupResults[repo]) /\ groupResults[repo][k].status = st}

\* All subshells have been waited for: execute_parallel counts the lines of
\* the result files, and the script prints the summary and exits.
ShellSummary ==
  /\ phase = "shell parallel"
  /\ queue = <<>>
  /\ pids = <<>>
  /\ successful' = Cardinality(ResultLines("SUCCESS"))
  /\ failed' = Cardinality(ResultLines("FAILED"))
  /\ summary' = TRUE
  /\ phase' = "exited"
  /\ exitCode' = IF failed' > 0 THEN 1 ELSE 0
  /\ UNCHANGED <<taskFiles, status, taskGroups, repoNames, queue, pids,
                 jobCount, subshell, taskResult, groupResults>>
  /\ shellUnchanged

NextShell ==
  \/ ShellExecuteParallel
  \/ ShellStartGroup
  \/ \E i \in 1..Len(taskFiles) :
       \/ ShellAgentSucceeds(i)
       \/ ShellAgentFails(i)
  \/ ShellReap
  \/ ShellWait
  \/ ShellSummary

SpecShell == InitShell /\ [][NextShell]_vars

(***************************************************************************)
(* gen-and-run-tasks.sh: read_config, load_config and the priority of the  *)
(* command line, with jq installed.  Shell values are strings.             *)
(***************************************************************************)
TrueText == <<"t", "r", "u", "e">>

FalseText == <<"f", "a", "l", "s", "e">>

NullText == <<"n", "u", "l", "l">>

\* What jq -r prints for a JSON value.
jqRaw(v) ==
  CASE v = JsTrue -> TrueText
    [] v = JsFalse -> FalseText
    [] v = Missing -> NullText
    [] v.t = "number" -> NumberToString(v.v)
    [] OTHER -> v.s

\* jq -r '.key // "default"': the alternative operator takes its right side
\* when the left side is null or false.
jqAlternative(v, default_value) ==
  IF v = Missing \/ v = JsFalse THEN default_value ELSE jqRaw(v)

\* read_config config_file key default_value
read_config(config_file, key, default_value) ==
  IF config_file.readable
  THEN LET value == jqAlternative(config_file.object[key], default_value)
       IN  IF value # NullText /\ value # <<>> THEN value ELSE default_value
  ELSE default_value

\* The defaults load_config starts from.
CONFIG_DEFAULTS ==
  [key \in ConfigKeys |->
     CASE key = "parallel" -> FalseText
       [] key = "maxJobs" -> NumberToString(DefaultMaxJobs)
       [] key = "saveLogs" -> TrueText
       [] key = "generateOnly" -> FalseText
       [] key = "runOnly" -> FalseText
       [] key = "guideFile" -> GuideMd]

\* load_config bundle_path: the CONFIG_ variables, given whether
\* bundle_path is set, the root config.json and that of the bundle.
load_config(bundle_path, rootFile, bundleFile) ==
  LET c1 == IF rootFile.readable
            THEN [key \in ConfigKeys |->
                    read_config(rootFile, key, CONFIG_DEFAULTS[key])]
            ELSE CONFIG_DEFAULTS
  IN  IF bundle_path /\ bundleFile.readable
      THEN [key \in ConfigKeys |-> read_config(bundleFile, key, c1[key])]
      ELSE c1

\* The CLI_ variable of an option: empty when the option is not given.
cliText(v) == IF v = JsUndefined THEN <<>> ELSE v.s

\* X="${CLI_X:-$CONFIG_X}" for every key.
applyPriority(argv, cfg) ==
  [key \in ConfigKeys |->
     LET cli == cliText(CASE key = "parallel" -> argv.parallel
                          [] key = "maxJobs" -> argv.maxJobs
                          [] key = "saveLogs" -> argv.saveLogs
                          [] key = "generateOnly" -> argv.generateOnly
                          [] key = "runOnly" -> argv.runOnly
                          [] key = "guideFile" -> argv.guideFile)
     IN  JsString(IF cli # <<>> THEN cli ELSE cfg[key])]

\* The options of the shell script: a flag sets its variable to true.
ShellArgvValues ==
  [parallel : {JsUndefined, JsString(TrueText)},
   maxJobs : {JsUndefined, JsString(<<"3">>)},
   saveLogs : {JsUndefined, JsString(TrueText)},
   generateOnly : {JsUndefined},
   runOnly : {JsUndefined},
   guideFile : {JsUndefined}]

ShellInvocations ==
  {inv \in [argv : ShellArgvValues, bundle : BOOLEAN, rootFile : ConfigFiles,
            bundleFile : ConfigFiles, bundleGuide : {FALSE},
            outputDir : {"absent"}] :
     ~inv.bundle => inv.bundleFile = NoFile}

InitShellConfig ==
  /\ invocation \in ShellInvocations
  /\ loaded = EmptyObject
  /\ paths = NoPaths
  /\ phase = "shell startup"
  /\ config = [parallel |-> FALSE, maxJobs |-> 1, saveLogs |-> FALSE,
               generateOnly |-> FALSE, runOnly |-> FALSE]
  /\ outputDirExists = FALSE
  /\ taskDir = {}
  /\ taskFiles = <<>>
  /\ status = <<>>
  /\ started = <<>>
  /\ taskGroups = <<>>
  /\ repoNames = <<>>
  /\ queue = <<>>
  /\ activeGroups = {}
  /\ results = <<>>
  /\ groupResults = <<>>
  /\ successful = 0
  /\ failed = 0
  /\ ret = NoValue
  /\ exitCode = -1
  /\ ExpandIdle
  /\ GenIdle
  /\ FilesIdle
  /\ ShellIdle

\* The script parses its options, calls load_config and applies the
\* priority of the command line.
ShellLoadConfig ==
  /\ phase = "shell startup"
  /\ loaded' = applyPriority(invocation.argv,
                             load_config(invocation.bundle, invocation.rootFile,
                                         invocation.bundleFile))
  /\ phase' = "shell loaded"
  /\ UNCHANGED <<config, exitCode, paths>>
  /\ startupUnchanged

NextShellConfig == ShellLoadConfig

SpecShellConfig == InitShellConfig /\ [][NextShellConfig]_vars

(***************************************************************************)
(* Generation and execution over one shared clone per repository name:     *)
(* the targets name the repository a under two organisations, and          *)
(* path.join(workspaceDir, repo) is the same directory for both.           *)
(***************************************************************************)
SharedCloneTargets ==
  {[org |-> org, repo |-> <<"a">>, branch |-> <<"m">>] : org \in {TargetOrg, OtherOrg}}

SharedCloneTargetLists ==
  UNION {[1..n -> SharedCloneTargets] : n \in 0..MaxTargets}

InitSharedClone ==
  /\ \E parallel \in BOOLEAN :
       config = [parallel |-> parallel,
                 maxJobs |-> IF parallel THEN MaxJobsBound ELSE 1,
                 saveLogs |-> parallel,
                 generateOnly |-> FALSE, runOnly |-> FALSE]
  /\ \E stale \in BOOLEAN :
       /\ outputDirExists = stale
       /\ taskDir = IF stale THEN {StaleArtifact} ELSE {}
  /\ phase = "generation"
  /\ taskFiles = <<>>
  /\ status = <<>>
  /\ started = <<>>
  /\ taskGroups = <<>>
  /\ repoNames = <<>>
  /\ queue = <<>>
  /\ activeGroups = {}
  /\ results = <<>>
  /\ groupResults = <<>>
  /\ successful = 0
  /\ failed = 0
  /\ ret = NoValue
  /\ exitCode = -1
  /\ ExpandIdle
  /\ genTargets \in SharedCloneTargetLists
  /\ genIndex = 0
  /\ taskCounter = 1
  /\ successCount = 0
  /\ workspace \in {ws \in [GenRepos -> UNION {WorkingCopies(repo) : repo \in GenRepos}] :
                      \A repo \in GenRepos : ws[repo] \in WorkingCopies(repo)}
  /\ forks \in SUBSET GenRepos
  /\ calls = <<>>
  /\ StartIdle
  /\ FilesIdle
  /\ ShellIdle

NextSharedClone ==
  \/ GenerateTasksClean
  \/ EnsureRepoExistsSucceeds
  \/ EnsureRepoExistsFails
  \/ EnsureRepoExistsThrows
  \/ GenerateTasksReturn
  \/ ExecuteTasksNoFiles
  \/ ExecuteSequential
  \/ ExecuteParallel
  \/ \E i \in 1..Len(taskFiles) :
       \/ RunTaskNoWorkspacePath(i)
       \/ RunTaskNoWorkspaceDir(i)
       \/ RunTaskSpawn(i)
       \/ \E code \in {0, 1} : AgentExit(i, code)
  \/ ExecuteTasksReturn

SpecSharedClone == InitSharedClone /\ [][NextSharedClone]_vars

(***************************************************************************)
(* Properties of the executor.                                             *)
(***************************************************************************)
\* The file name of a task file path, as groupTasksByRepo takes it.
fileName(taskFile) ==
  LET parts == split(taskFile, "/") IN parts[Len(parts)]

\* The repository key of the task file of index i.
RepoKey(i) == extractRepoFromFilename(fileName(taskFiles[i]))

\* runTask has been called for the task file of index i and has not returned.
Running(i) == status[i] \in {"reading", "agent"}

RunningTasks == {i \in 1..Len(taskFiles) : Running(i)}

\* Every task file has been run and main has left through the summary.
RunCompleted ==
  /\ phase = "exited"
  /\ taskFiles # <<>>
  /\ \A i \in 1..Len(taskFiles) : status[i] = "done"

SuccessCount(rs) == Cardinality({k \in 1..Len(rs) : rs[k].success})

FailureCount(rs) == Cardinality({k \in 1..Len(rs) : ~rs[k].success})

\* C1: in parallel mode two tasks with the same repository key never run at
\* the same time.
C1_SameKeyNeverOverlaps ==
  config.parallel =>
    \A i, j \in 1..Len(taskFiles) :
      (i # j /\ Running(i) /\ Running(j)) => RepoKey(i) # RepoKey(j)

\* A task runs after another task of its key has finished, while a task of
\* another key runs too.
C1_Witness ==
  /\ phase = "parallel"
  /\ \E i, j, k \in 1..Len(taskFiles) :
       /\ i # j /\ RepoKey(i) = RepoKey(j) /\ RepoKey(k) # RepoKey(i)
       /\ status[i] = "done" /\ Running(j) /\ Running(k)

\* C2: in parallel mode at most maxJobs tasks are in flight.
C2_AtMostMaxJobsInFlight ==
  config.parallel => Cardinality(RunningTasks) <= config.maxJobs

\* maxJobs tasks are in flight and a group waits for a slot.
C2_Witness ==
  /\ phase = "parallel"
  /\ config.maxJobs = 2
  /\ Cardinality(RunningTasks) = 2
  /\ queue # <<>>
  /\ \A i \in RunningTasks : status[i] = "agent"

\* C3: in parallel mode two tasks whose task files name the same repository
\* (the same Workspace Path) never run at the same time.
C3_SameRepositoryNeverOverlaps ==
  config.parallel =>
    \A i, j \in 1..Len(taskFiles) :
      (i # j /\ ArtifactOf(taskFiles[i]).repo = ArtifactOf(taskFiles[j]).repo)
        => ~(Running(i) /\ Running(j))

\* C4: in sequential mode the tasks are started in the sorted order of their
\* file names, none skipped, each after the one before it has finished.
C4_SequentialInSortedOrder ==
  (~config.parallel /\ phase \in {"sequential", "exited"}) =>
    /\ \A p, q \in 1..Len(started) :
         p < q => /\ StrLess(fileName(taskFiles[started[p]]),
                             fileName(taskFiles[started[q]]))
                  /\ status[started[p]] = "done"
    /\ \A i \in 1..Len(taskFiles) :
         status[i] = "pending" =>
           \A p \in 1..Len(started) :
             StrLess(fileName(taskFiles[started[p]]), fileName(taskFiles[i]))
    /\ Cardinality(RunningTasks) <= 1

\* The third task of a sequential run is running.
C4_Witness ==
  /\ phase = "sequential"
  /\ Len(started) = 3
  /\ status[started[3]] = "agent"

\* C5: in parallel mode a task is started only when the tasks of its group
\* that were generated before it (that carry a smaller counter) are done.
C5_GroupOrderIsGenerationOrder ==
  config.parallel =>
    \A i, j \in 1..Len(taskFiles) :
      ( /\ RepoKey(i) = RepoKey(j)
        /\ ArtifactOf(taskFiles[i]).counter < ArtifactOf(taskFiles[j]).counter
        /\ status[j] # "pending" ) => status[i] = "done"

\* C6: when the process has exited, every artifact of the task directory has
\* exactly one TaskResult.
C6_EveryArtifactHasOneResult ==
  (phase = "exited" /\ outputDirExists) =>
    \A a \in taskDir :
      Cardinality({k \in 1..Len(ret.results) :
                     taskFiles[ret.results[k].task] = pathJoin(OutputDir, a.name)}) = 1

\* C7: when all tasks have finished, the exit status is 1 if a task failed
\* and 0 if none did.
C7_ExitStatusReflectsFailures ==
  RunCompleted =>
    /\ exitCode \in {0, 1}
    /\ exitCode = 1 <=> FailureCount(ret.results) > 0

\* A sequential run of three tasks, one of which failed, has exited with 1.
C7_Witness ==
  /\ RunCompleted
  /\ ~config.parallel
  /\ Len(taskFiles) = 3
  /\ ret.successful = 2 /\ ret.failed = 1
  /\ exitCode = 1

\* C8: the returned counters are the numbers of successful and of failed
\* results, and they add up to the number of task files found.
C8_CountersMatchResults ==
  RunCompleted =>
    /\ ret.successful = SuccessCount(ret.results)
    /\ ret.failed = FailureCount(ret.results)
    /\ ret.successful + ret.failed = ret.totalTasks
    /\ ret.totalTasks = Cardinality(taskDir)
    /\ Len(ret.results) = ret.totalTasks

\* A parallel run of two groups at once has returned successes and a failure.
C8_Witness ==
  /\ RunCompleted
  /\ config.parallel /\ config.maxJobs = 2
  /\ Len(repoNames) >= 2
  /\ ret.successful >= 1 /\ ret.failed >= 1

\* C9: a parallel run over a task directory with artifacts ends only when
\* every artifact has been executed.
C9_ParallelRunExecutesEveryArtifact ==
  (phase = "exited" /\ config.parallel /\ outputDirExists /\ taskDir # {}) =>
    /\ Len(taskFiles) = Cardinality(taskDir)
    /\ \A i \in 1..Len(taskFiles) : status[i] = "done"
    /\ \A repo \in DOMAIN taskGroups : repo \notin activeGroups
    /\ queue = <<>>

(***************************************************************************)
(* Properties of the target expander.                                      *)
(***************************************************************************)
\* An item that has org, repos and branches.
ValidItem(item) ==
  ~item.isNull /\ item.org # <<>> /\ item.repos.present /\ item.branches.present

\* The number of (repo, branch) pairs of the valid items among the first n.
RECURSIVE PairsUpTo(_, _)
PairsUpTo(items, n) ==
  IF n = 0 THEN 0
  ELSE PairsUpTo(items, n - 1)
         + (IF ValidItem(items[n])
            THEN Len(items[n].repos.list) * Len(items[n].branches.list)
            ELSE 0)

\* C10: the returned array holds, for each valid item in item order, for each
\* of its repos in order, for each of its branches in order, the job
\* {org, repo, branch}, and nothing else: its length is the sum of
\* |repos| * |branches| over the valid items, duplicates included.
C10_ExpansionIsOrderedCrossProduct ==
  parsePc = "returned" =>
    LET items == targetData.target
    IN  /\ Len(targets) = PairsUpTo(items, Len(items))
        /\ \A e \in 1..Len(items) :
             ValidItem(items[e]) =>
               \A r \in 1..Len(items[e].repos.list),
                  b \in 1..Len(items[e].branches.list) :
                 targets[PairsUpTo(items, e - 1)
                           + (r - 1) * Len(items[e].branches.list) + b]
                   = [org |-> items[e].org,
                      repo |-> items[e].repos.list[r],
                      branch |-> items[e].branches.list[b]]

\* Two equal items of two repos and two branches each were expanded into
\* eight jobs, every triple twice.
C10_Witness ==
  /\ parsePc = "returned"
  /\ targetData.hasTarget
  /\ Len(targetData.target) = 2
  /\ targetData.target[1] = targetData.target[2]
  /\ ValidItem(targetData.target[1])
  /\ Len(targetData.target[1].repos.list) = 2
  /\ Len(targetData.target[1].branches.list) = 2
  /\ Len(targets) = 8
  /\ targets[1] = targets[5]

\* The items the loop reached that lack org, repos or branches, in order.
RECURSIVE LackingUpTo(_, _)
LackingUpTo(items, n) ==
  IF n = 0 THEN <<>>
  ELSE LackingUpTo(items, n - 1)
         \o (IF ValidItem(items[n]) THEN <<>> ELSE <<n>>)

\* C11: an entry that lacks org, repos or branches is skipped with a warning
\* and contributes no jobs, the valid entries before and after it are
\* expanded, and expansion fails only when there is no target list.
C11_LackingEntriesAreSkipped ==
  /\ parsePc = "threw" => ~targetData.hasTarget
  /\ (parsePc = "returned" /\ targetData.hasTarget) =>
       LET items == targetData.target
       IN  /\ warnings = LackingUpTo(items, Len(items))
           /\ Len(targets) = PairsUpTo(items, Len(items))

\* C12: in a target list without null items, an entry that has org and whose
\* repos list or branches list is empty contributes no jobs and is warned
\* about, and expansion returns.
C12_EmptyListWarns ==
  (parsePc # "start" /\ targetData.hasTarget) =>
    \A e \in 1..Len(targetData.target) :
      LET item == targetData.target[e]
      IN  ( /\ (\A d \in 1..Len(targetData.target) : ~targetData.target[d].isNull)
            /\ ValidItem(item)
            /\ (item.repos.list = <<>> \/ item.branches.list = <<>>) ) =>
            /\ parsePc = "returned"
            /\ PairsUpTo(targetData.target, e) = PairsUpTo(targetData.target, e - 1)
            /\ \E w \in 1..Len(warnings) : warnings[w] = e

\* C13: an entry of the legacy form {repo, branch} is expanded into one job
\* for its repo and branch.
C13_LegacyEntriesAreExpanded ==
  (parsePc = "returned" /\ targetData.hasTarget) =>
    \A e \in 1..Len(targetData.target) :
      LET item == targetData.target[e]
      IN  (item.repo # <<>> /\ item.branch # <<>>) =>
            \E k \in 1..Len(targets) :
              targets[k].repo = item.repo /\ targets[k].branch = item.branch

(***************************************************************************)
(* Properties of provisioning and generation.                              *)
(***************************************************************************)
\* The number of the first n calls of ensureRepoExists that returned true.
RECURSIVE SucceededUpTo(_)
SucceededUpTo(n) ==
  IF n = 0 THEN 0
  ELSE SucceededUpTo(n - 1) + (IF calls[n].ret = "true" THEN 1 ELSE 0)

\* C14: when ensureRepoExists returns true for (org, repo), workspace/<repo>
\* exists and its upstream remote is https://github.com/<org>/<repo>.git.
C14_SuccessMeansUpstreamIsSet ==
  \A k \in 1..Len(calls) :
    calls[k].ret = "true" =>
      /\ calls[k].copy.exists
      /\ calls[k].copy.upstream = UpstreamUrl(genTargets[k].org, genTargets[k].repo)

\* C15: a call of ensureRepoExists that follows a successful call for the
\* same (org, repo) succeeds, forks nothing, clones nothing, changes no
\* remote and leaves the working copy and the forks as the first call left
\* them, with an upstream remote.
C15_SecondCallChangesNothing ==
  \A k \in 1..(Len(calls) - 1) :
    ( /\ genTargets[k].org = genTargets[k + 1].org
      /\ genTargets[k].repo = genTargets[k + 1].repo
      /\ calls[k].ret = "true" ) =>
      /\ calls[k + 1].ret = "true"
      /\ ~calls[k + 1].forked
      /\ ~calls[k + 1].cloned
      /\ calls[k + 1].writes = 0
      /\ calls[k + 1].copy = calls[k].copy
      /\ calls[k + 1].forks = calls[k].forks
      /\ calls[k + 1].copy.upstream # NoRemote

\* C16: when the process has exited after a call of ensureRepoExists
\* returned false, that job has no artifact (the artifacts are those of the
\* jobs whose call returned true, numbered in order), every later job was
\* provisioned, and every artifact has exactly one TaskResult.
C16_FailedJobIsSkippedAndRunGoesOn ==
  (phase = "exited" /\ \E k \in 1..Len(calls) : calls[k].ret = "false") =>
    /\ Len(calls) = Len(genTargets)
    /\ taskDir = {Artifact(SucceededUpTo(k), <<genTargets[k].repo, genTargets[k].branch>>) :
                    k \in {j \in 1..Len(calls) : calls[j].ret = "true"}}
    /\ \A a \in taskDir :
         Cardinality({k \in 1..Len(ret.results) :
                        taskFiles[ret.results[k].task] = pathJoin(OutputDir, a.name)}) = 1

\* C17: when the user's identity cannot be resolved for a job, the loop of
\* generateTasks goes on to the next job.
C17_IdentityFailureSkipsTheJob ==
  \A k \in 1..Len(calls) : calls[k].ret = "threw" => genIndex > k

(***************************************************************************)
(* Properties of the start of main.                                        *)
(***************************************************************************)
\* loadConfig has returned a configuration with generateOnly and runOnly.
BothOnly == truthy(loaded["generateOnly"]) /\ truthy(loaded["runOnly"])

\* C18: when the loaded configuration has both generateOnly and runOnly,
\* whichever layers they come from, main goes from validateConfig to its
\* exit with code 1 only: the task directory, the workspace and the forks
\* are as main found them, ensureRepoExists was never called, executeTasks
\* listed no task file and no agent ran.
C18_BothOnlyFailsBeforeAnyEffect ==
  BothOnly =>
    /\ phase \in {"validate", "exited"}
    /\ phase = "exited" => exitCode = 1
    /\ outputDirExists = (invocation.outputDir # "absent")
    /\ taskDir = InitialTaskDir(invocation.outputDir)
    /\ workspace = StartWorkspace
    /\ forks = {}
    /\ calls = <<>>
    /\ taskFiles = <<>>
    /\ status = <<>>
    /\ successful = 0 /\ failed = 0

\* generateOnly comes from the bundle's config.json and runOnly from the
\* command line; main has exited and the stale task directory is there.
C18_Witness ==
  /\ phase = "exited"
  /\ exitCode = 1
  /\ BothOnly
  /\ invocation.argv.generateOnly = JsUndefined
  /\ invocation.argv.runOnly = JsTrue
  /\ invocation.bundle
  /\ invocation.bundleFile.object["generateOnly"] = JsTrue
  /\ taskDir = {StaleArtifact}

\* The layers by rising priority: 1 the defaults, 2 the root config.json,
\* 3 the config.json of the bundle, 4 the command-line options.
LayerNumbers == 1..4

\* Layer number n defines the key.
Defines(n, key) ==
  CASE n = 1 -> TRUE
    [] n = 2 -> /\ invocation.rootFile.readable
                /\ invocation.rootFile.object[key] # Missing
    [] n = 3 -> /\ invocation.bundle
                /\ invocation.bundleFile.readable
                /\ invocation.bundleFile.object[key] # Missing
    [] n = 4 -> parseArguments(invocation.argv)[key] # JsUndefined

\* The value layer number n gives to the key.
ValueIn(n, key) ==
  CASE n = 1 -> DEFAULT_CONFIG[key]
    [] n = 2 -> invocation.rootFile.object[key]
    [] n = 3 -> invocation.bundleFile.object[key]
    [] n = 4 -> parseArguments(invocation.argv)[key]

\* C19: in the object loadConfig returns, every key has the value of the
\* highest-priority layer that defines it, among defaults < root
\* config.json < bundle config.json < command-line options; a layer without
\* the key, a missing or unreadable file and a run without bundle fall
\* through to the layer below.
C19_HighestDefiningLayerWins ==
  phase # "startup" =>
    \A key \in ConfigKeys :
      \E n \in LayerNumbers :
        /\ Defines(n, key)
        /\ \A m \in LayerNumbers : m > n => ~Defines(m, key)
        /\ loaded[key] = ValueIn(n, key)

\* The root config.json says parallel: true, the bundle's says parallel:
\* false and the command line says nothing of it: parallel is false, and
\* maxJobs, which no file and no option gives, is the default.
C19_Witness ==
  /\ phase = "validate"
  /\ invocation.rootFile.object["parallel"] = JsTrue
  /\ invocation.bundle
  /\ invocation.bundleFile.object["parallel"] = JsFalse
  /\ invocation.argv.parallel = JsUndefined
  /\ loaded["parallel"] = JsFalse
  /\ loaded["maxJobs"] = JsNumber(DefaultMaxJobs)

\* The maxJobs the user supplied: what --max-jobs holds in argv, else what
\* the config.json of highest priority says, else the default.
SuppliedMaxJobs ==
  IF invocation.argv.maxJobs # JsUndefined THEN invocation.argv.maxJobs
  ELSE IF Defines(3, "maxJobs") THEN ValueIn(3, "maxJobs")
  ELSE IF Defines(2, "maxJobs") THEN ValueIn(2, "maxJobs")
  ELSE DEFAULT_CONFIG["maxJobs"]

\* C20: main enters the generation or the execution section in parallel
\* mode only when the supplied maxJobs is a positive integer, and then runs
\* under that very value.
C20_InvalidMaxJobsNeverRuns ==
  config.parallel =>
    /\ SuppliedMaxJobs.t = "number"
    /\ SuppliedMaxJobs.v >= 1
    /\ config.maxJobs = SuppliedMaxJobs.v

(***************************************************************************)
(* Properties of the logs, the generated artifacts and the modes.          *)
(***************************************************************************)
\* The agent process of the task file of index i has been spawned: its
\* output goes to the log file runTask was given.
Spawned(i) ==
  \/ status[i] = "agent"
  \/ /\ status[i] = "done"
     /\ \E r \in DOMAIN groupResults :
          \E k \in 1..Len(groupResults[r]) :
            groupResults[r][k].task = i /\ groupResults[r][k].error = "none"

\* C21: in parallel mode log saving is on, the agent of every task writes
\* to logs/<name of the task file without .md>.log, and no two tasks of
\* the run have the same log file.
C21_ParallelTasksLogToOwnFiles ==
  phase = "parallel" =>
    /\ config.saveLogs
    /\ \A i \in 1..Len(taskFiles) :
         Spawned(i) =>
           /\ LogFileArg(i) # NoLog
           /\ LogFileArg(i) = LogDir \o <<"/">> \o stripMd(ArtifactOf(taskFiles[i]).name)
                                \o <<".", "l", "o", "g">>
           /\ \A j \in 1..Len(taskFiles) :
                (j # i /\ Spawned(j)) => LogFileArg(j) # LogFileArg(i)

\* Two agents of two repositories write their logs at the same time, and a
\* third task of the repository of one of them has written its own before.
C21_Witness ==
  /\ phase = "parallel"
  /\ \E i, j, k \in 1..Len(taskFiles) :
       /\ status[i] = "agent" /\ status[j] = "agent"
       /\ RepoKey(i) # RepoKey(j)
       /\ k # i /\ status[k] = "done" /\ Spawned(k)
       /\ RepoKey(k) = RepoKey(i)

\* The number of iterations so far that went past the setup and the write
\* of the task file.
SetupSuccesses ==
  Cardinality({k \in 1..Len(calls) : calls[k].ret = "true" /\ genIndex > k})

\* C22: once generateTasks has cleaned the task directory, the counter is
\* one more than the number of jobs set up and written, the artifacts in
\* the directory carry the counters 1..n with n the count generateTasks
\* returns, and no two artifacts have the same file name, duplicate jobs
\* included.
C22_CountersAreDense ==
  (genIndex >= 1 /\ genTargets # <<>>) =>
    /\ taskCounter = SetupSuccesses + 1
    /\ successCount = SetupSuccesses
    /\ {a.counter : a \in taskDir} = 1..successCount
    /\ Cardinality(taskDir) = successCount
    /\ \A a, b \in taskDir : a.name = b.name => a = b

\* Two jobs of the same repository and branch: the first was skipped and
\* the second got the number 1.
C22_Witness ==
  /\ Len(genTargets) = 2
  /\ genTargets[1] = genTargets[2]
  /\ Len(calls) = 2
  /\ calls[1].ret = "false"
  /\ calls[2].ret = "true"
  /\ taskDir = {Artifact(1, <<genTargets[2].repo, genTargets[2].branch>>)}
  /\ successCount = 1

\* The file name the job of call k is to get: the counter of the job, the
\* repository and the branch with its slashes replaced.
FlatName(k) ==
  taskFileName(SucceededUpTo(k), genTargets[k].repo,
               sanitizeBranchName(genTargets[k].branch))

\* C23: every job that ensureRepoExists has set up, a job with a slash in
\* its branch name included, has its artifact in the task directory under
\* the flat name <counter>_<repo>_<branch with slashes replaced>.md, and
\* the loop of generateTasks has gone on to the next job.
C23_SlashBranchIsMaterializedFlat ==
  \A k \in 1..Len(calls) :
    calls[k].ret = "true" =>
      /\ genIndex > k
      /\ \E a \in taskDir :
           /\ a.name = FlatName(k)
           /\ a.repo = genTargets[k].repo
           /\ a.branch = genTargets[k].branch

\* The content generateTasks writes into the task file of an artifact.
ContentOf(a) ==
  generateTaskContent([org |-> TargetOrg, repo |-> a.repo, branch |-> a.branch],
                      WorkspaceDir, guideContent, taskContent)

\* The lines of a content after the first line `open`, up to the next line
\* `close`.
Between(content, open, close) ==
  LET lines == split(content, "\n")
      i == MinOf({k \in 1..Len(lines) : lines[k] = open})
      j == MinOf({k \in (i + 1)..Len(lines) : lines[k] = close})
  IN  SubSeq(lines, i + 1, j - 1)

\* C24: in every task file generateTasks has written, the lines between
\* <guide> and </guide> are the lines of the guide file and the lines
\* between <task> and </task> are the lines of the task file.
C24_GuideAndTaskAreEmbeddedVerbatim ==
  genIndex >= 1 =>
    \A a \in taskDir :
      /\ Between(ContentOf(a), GuideOpen, GuideClose)
           = split(inputFiles.guide.text, "\n")
      /\ Between(ContentOf(a), TaskOpen, TaskClose)
           = split(inputFiles.task.text, "\n")

\* C25: for every task file generateTasks has written, extractWorkspacePath
\* finds in its content the path workspace/<repo> that generateTaskContent
\* put there, and when the file was written that path was an existing
\* directory and a git working copy.
C25_WorkspacePathRoundTrip ==
  \A k \in 1..Len(calls) :
    (calls[k].ret = "true" /\ genIndex > k) =>
      \E a \in taskDir :
        /\ a.counter = SucceededUpTo(k)
        /\ a.repo = genTargets[k].repo
        /\ ~extractWorkspacePath(ContentOf(a)).threw
        /\ extractWorkspacePath(ContentOf(a)).path
             = pathJoin(WorkspaceDir, genTargets[k].repo)
        /\ calls[k].copy.exists
        /\ calls[k].copy.git

\* C26: the guide file main resolves is the one --guide-file names when the
\* option is given, else the GUIDE.md of the bundle when the bundle has
\* one, else the guide file of the configuration (config.json or default).
C26_GuideFilePriority ==
  paths.resolved =>
    paths.guideFile =
      IF invocation.argv.guideFile # JsUndefined
      THEN invocation.argv.guideFile.s
      ELSE IF invocation.bundle /\ invocation.bundleGuide
      THEN pathJoin(BundlePath, GuideMd)
      ELSE loaded["guideFile"].s

\* C27: under generateOnly main ends after the generation with status 0 and
\* executeTasks, which cleans the log directory and spawns the agents, is
\* never entered; under runOnly ensureRepoExists is never called, the
\* workspace, the forks and the task directory stay as main found them, and
\* a run that has exited has one result for every artifact of the task
\* directory and for nothing else.
C27_ModesRestrictSideEffects ==
  /\ config.generateOnly =>
       /\ phase \in {"generation", "exited"}
       /\ phase = "exited" => exitCode = 0
       /\ taskFiles = <<>>
       /\ status = <<>>
       /\ ret = NoValue
  /\ config.runOnly =>
       /\ genIndex = 0
       /\ calls = <<>>
       /\ forks = {}
       /\ workspace = StartWorkspace
       /\ outputDirExists = (invocation.outputDir # "absent")
       /\ taskDir = InitialTaskDir(invocation.outputDir)
       /\ (phase = "exited" /\ taskDir # {}) =>
            /\ Len(ret.results) = Cardinality(taskDir)
            /\ \A a \in taskDir :
                 \E k \in 1..Len(ret.results) :
                   taskFiles[ret.results[k].task] = pathJoin(OutputDir, a.name)

\* The indices of the task files of a repository group.
GroupTasks(repo) ==
  {IndexOf(taskGroups[repo][k]) : k \in 1..Len(taskGroups[repo])}

\* The group's function has been called by the limiter and has not returned:
\* its first task has started and its last task has not finished.
InProgress(repo) ==
  /\ \E i \in GroupTasks(repo) : status[i] # "pending"
  /\ \E i \in GroupTasks(repo) : status[i] # "done"

GroupsInProgress == {repo \in DOMAIN taskGroups : InProgress(repo)}

\* C28: in a parallel run at most maxJobs repository groups are in progress;
\* a group in progress holds a slot of the limiter and always has exactly
\* one of its tasks running, the tasks before it done and those after it
\* not started; and a group waits, none of its tasks started, exactly while
\* it is in the limiter's queue, which is non-empty only when maxJobs groups
\* are in progress.
C28_GroupHoldsOneSlot ==
  phase = "parallel" =>
    /\ Cardinality(GroupsInProgress) <= config.maxJobs
    /\ GroupsInProgress = activeGroups
    /\ \A repo \in GroupsInProgress :
         /\ Cardinality(GroupTasks(repo) \cap RunningTasks) = 1
         /\ \A i, j \in GroupTasks(repo) :
              (PositionInGroup(i) < PositionInGroup(j) /\ status[j] # "pending")
                => status[i] = "done"
    /\ \A repo \in DOMAIN taskGroups :
         (\E k \in 1..Len(queue) : queue[k] = repo)
           <=> (\A i \in GroupTasks(repo) : status[i] = "pending")
    /\ queue # <<>> => Cardinality(GroupsInProgress) = config.maxJobs

\* With one slot, a group of two tasks runs its second task while another
\* group waits, and, later, the waiting group runs after the first is done.
C28_Witness ==
  /\ phase = "parallel"
  /\ config.maxJobs = 1
  /\ \E repo \in GroupsInProgress :
       /\ Cardinality(GroupTasks(repo)) = 2
       /\ \E i \in GroupTasks(repo) : status[i] = "done"
       /\ \E i \in GroupTasks(repo) : status[i] = "agent"
  /\ queue # <<>>

\* C29: when the task directory is missing or holds no artifact, executeTasks
\* starts no task and returns no summary, and main exits with status 1.
C29_NothingToRunIsFatal ==
  (~config.generateOnly /\ (~outputDirExists \/ listTaskFiles(taskDir) = <<>>)) =>
    /\ phase \in {"generation", "main", "exited"}
    /\ taskFiles = <<>>
    /\ status = <<>>
    /\ ret = NoValue
    /\ phase = "exited" => exitCode = 1

\* main has exited on an existing task directory without artifacts.
C29_Witness ==
  /\ phase = "exited"
  /\ exitCode = 1
  /\ outputDirExists
  /\ taskDir = {}
  /\ status = <<>>

\* target.yml, the task file or the guide file is missing, or target.yml has
\* no valid target list.
InputsFail ==
  \/ inputFiles.target \in {"missing", "invalid"}
  \/ ~inputFiles.task.exists
  \/ ~inputFiles.guide.exists

\* C30: with a missing target, task or guide file, or a target file without
\* a valid target list, every step of generateTasks ends the run with status
\* 1 and leaves the task directory with its artifacts, the workspace and the
\* forks as they were, with no ensureRepoExists call made.
C30_FailedGenerationChangesNothing ==
  [][InputsFail =>
       /\ phase = "generation" /\ phase' = "exited" /\ exitCode' = 1
       /\ calls = <<>>
       /\ UNCHANGED <<outputDirExists, taskDir, workspace, forks, calls,
                      genIndex, taskCounter>>]_vars

\* generateTasks has failed on a target file without a valid target list,
\* and the task directory of an earlier run still holds its artifact.
C30_Witness ==
  /\ phase = "exited"
  /\ exitCode = 1
  /\ inputFiles.target = "invalid"
  /\ inputFiles.task.exists
  /\ inputFiles.guide.exists
  /\ outputDirExists
  /\ taskDir = {StaleArtifact}
  /\ calls = <<>>

\* C31: the sorted list of task files that executeTasks builds is in
\* generation order: the counters of the artifacts increase along it.
C31_SortedOrderIsGenerationOrder ==
  \A i, j \in 1..Len(taskFiles) :
    i < j => ArtifactOf(taskFiles[i]).counter < ArtifactOf(taskFiles[j]).counter

\* The worktrees created by the calls before call k, plus one: the counter
\* the job of call k runs under.
WorktreesBefore(k) ==
  1 + Cardinality({j \in 1..(k - 1) : calls[j].tree.path # NullPath})

\* C32: createWorktree hands git worktree add the local branch when it
\* exists, else upstream/<branch> when that exists, else origin/<branch>; it
\* returns the worktree path exactly when the worktree was created and null
\* otherwise, without an error leaving it; a job it returned null for has no
\* task.md, did not advance the counter, and the loop went on to the next
\* job.
C32_WorktreeRefOrderAndSkip ==
  \A k \in 1..Len(calls) :
    LET t == calls[k].tree
        target == genTargets[k]
        dir == taskDirPathOf(WorktreesBefore(k), target)
    IN  t.called =>
          /\ (t.dir /\ t.env.local) => t.ref = target.branch
          /\ (t.dir /\ ~t.env.local /\ t.env.upstream) =>
               t.ref = <<"u", "p", "s", "t", "r", "e", "a", "m", "/">> \o target.branch
          /\ (t.dir /\ ~t.env.local /\ ~t.env.upstream) =>
               t.ref = <<"o", "r", "i", "g", "i", "n", "/">> \o target.branch
          /\ LET created ==
                   /\ t.env.ensureDir /\ t.env.add
                   /\ (t.env.local \/ t.env.upstream \/ t.env.origin)
             IN  /\ created => t.path = pathJoin(dir, target.repo)
                 /\ ~created => t.path = NullPath
          \* the loop went on: the call is not the reason of an exit
          /\ genIndex > k
          /\ (phase = "exited" /\ exitCode = 1) => k < Len(calls)
          /\ t.path = NullPath =>
               /\ WorktreesBefore(k + 1) = WorktreesBefore(k)
               /\ ~\E a \in taskDir :
                    a.name = pathJoin(taskDirName(WorktreesBefore(k), target.repo,
                                                  target.branch), TaskMd)
                    /\ \A j \in 1..Len(calls) :
                         (j # k /\ genTargets[j] = target)
                           => calls[j].tree.path = NullPath
  /\ taskCounter = WorktreesBefore(Len(calls) + 1)

\* A job whose branch is found on origin only and whose worktree is not
\* created is followed by a job whose branch is found upstream and whose
\* worktree is created under the counter the first job left unused.
C32_Witness ==
  /\ Len(calls) = 2
  /\ calls[1].tree.called /\ calls[1].tree.path = NullPath
  /\ calls[1].tree.ref = <<"o", "r", "i", "g", "i", "n", "/">> \o genTargets[1].branch
  /\ calls[2].tree.path # NullPath
  /\ calls[2].tree.ref = <<"u", "p", "s", "t", "r", "e", "a", "m", "/">> \o genTargets[2].branch
  /\ taskCounter = 2
  /\ \E a \in taskDir : a.counter = 1 /\ a.branch = genTargets[2].branch

\* C33: in the parallel mode of the shell script a task whose agent exited
\* with a non-zero status has its FAILED line in the result file of its
\* group, the subshell of a group ends only when all its tasks have been
\* run, and the script exits only after every group has ended, with the
\* summary printed and every task counted as successful or failed.
C33_ShellFailureDoesNotAbort ==
  (phase \in {"shell parallel", "exited"} /\ taskResult # <<>>) =>
    /\ \A i \in 1..Len(taskFiles) :
         status[i] = "done" =>
           \E k \in 1..Len(groupResults[GroupOf(i)]) :
             /\ groupResults[GroupOf(i)][k].task = i
             /\ taskResult[i] = "FAILED" =>
                  groupResults[GroupOf(i)][k].status = "FAILED"
    /\ \A repo \in DOMAIN taskGroups :
         subshell[repo] \in {"0", "1"} =>
           \A k \in 1..Len(taskGroups[repo]) :
             status[IndexOf(taskGroups[repo][k])] = "done"
    /\ phase = "exited" =>
         /\ summary
         /\ \A repo \in DOMAIN taskGroups : subshell[repo] \in {"0", "1"}
         /\ successful + failed = Len(taskFiles)

\* Layer number n of the shell script defines the key: the defaults, the
\* root config.json, the config.json of the bundle, the command line.
ShellDefines(n, key) ==
  CASE n = 1 -> TRUE
    [] n = 2 -> /\ invocation.rootFile.readable
                /\ invocation.rootFile.object[key] # Missing
    [] n = 3 -> /\ invocation.bundle
                /\ invocation.bundleFile.readable
                /\ invocation.bundleFile.object[key] # Missing
    [] n = 4 -> invocation.argv[key] # JsUndefined

\* The value layer number n gives to the key, as text.
ShellValueIn(n, key) ==
  CASE n = 1 -> CONFIG_DEFAULTS[key]
    [] n = 2 -> jqRaw(invocation.rootFile.object[key])
    [] n = 3 -> jqRaw(invocation.bundleFile.object[key])
    [] n = 4 -> invocation.argv[key].s

\* C34: in the shell script every key resolves to the value of the
\* highest-priority layer that defines it, among defaults < root config.json
\* < bundle config.json < command line, a false in a config file included.
C34_ShellHighestDefiningLayerWins ==
  phase = "shell loaded" =>
    \A key \in ConfigKeys :
      \E n \in LayerNumbers :
        /\ ShellDefines(n, key)
        /\ \A m \in LayerNumbers : m > n => ~ShellDefines(m, key)
        /\ loaded[key] = JsString(ShellValueIn(n, key))

\* C35: a step that provisions (a call of ensureRepoExists, a change of the
\* workspace or of the forks) or writes to the task directory is a step of
\* the generation, taken while no task has been started, and it makes at
\* most one call, for the job next in the list; and when a task has been
\* started the loop of generateTasks is over.
C35_ProvisioningPrecedesExecution ==
  [][/\ (calls' # calls \/ workspace' # workspace \/ forks' # forks
            \/ taskDir' # taskDir) =>
          /\ phase = "generation"
          /\ status = <<>> /\ status' = <<>>
          /\ Len(calls') <= Len(calls) + 1
          /\ Len(calls') = Len(calls) + 1 => genIndex = Len(calls')
     /\ status' # <<>> =>
          /\ phase' # "generation"
          /\ genIndex' = Len(genTargets) + 1]_vars

\* Two jobs have been provisioned and their artifacts written, and the
\* agent of one of them runs.
C35_Witness ==
  /\ Len(calls) = 2
  /\ Cardinality(taskDir) = 2
  /\ \E i \in 1..Len(taskFiles) : status[i] = "agent"

\* The call of ensureRepoExists after which generateTasks wrote the task
\* file: the one that returned true as the counter had the value the file
\* name carries.
CallOf(taskFile) ==
  CHOOSE k \in 1..Len(calls) :
    /\ calls[k].ret = "true"
    /\ SucceededUpTo(k) = ArtifactOf(taskFile).counter

\* The Organization line of the Repository Info of a task file.
MetadataOrg(taskFile) == genTargets[CallOf(taskFile)].org

\* C36: while a task of a shared-clone run executes, the upstream remote of
\* its workspace directory is https://github.com/<org>/<repo>.git for the
\* organisation of the task's own Repository Info, also when one repository
\* name is a target under two organisations.
C36_UpstreamMatchesTaskMetadata ==
  \A i \in 1..Len(taskFiles) :
    (i \in DOMAIN status /\ Running(i)) =>
      LET a == ArtifactOf(taskFiles[i])
      IN  /\ workspace[a.repo].exists
          /\ workspace[a.repo].upstream = UpstreamUrl(MetadataOrg(taskFiles[i]), a.repo)

\* The repository groups with a hung agent process.
HungGroups ==
  {repo \in DOMAIN taskGroups : \E i \in GroupTasks(repo) : status[i] = "hung"}

\* Every task of every group without a hung agent is done.
OtherGroupsDone ==
  \A repo \in (DOMAIN taskGroups) \ HungGroups :
    \A i \in GroupTasks(repo) : status[i] = "done"

\* C37: in parallel mode, with fewer hung groups than maxJobs, every task of
\* every group without a hung agent is eventually started and completed,
\* given that the other agents exit; and executeParallel does not return
\* while an agent is hung.
C37_HungAgentBlocksOnlyItsGroup ==
  /\ [](HungGroups # {} => phase = "parallel")
  /\ (phase = "parallel") ~>
       (Cardinality(HungGroups) >= config.maxJobs \/ OtherGroupsDone)

\* One of the two groups called at once is hung, and the group that was
\* queued behind them has been started and has completed.
C37_Witness ==
  /\ phase = "parallel"
  /\ Len(repoNames) = 3
  /\ config.maxJobs = 2
  /\ Cardinality(HungGroups) = 1
  /\ repoNames[3] \notin HungGroups
  /\ OtherGroupsDone

\* The artifacts generateTasks has written in this run: one for each call
\* of ensureRepoExists that returned true, under the counter of that moment.
WrittenThisRun ==
  {Artifact(SucceededUpTo(k), <<genTargets[k].repo, genTargets[k].branch>>) :
     k \in {j \in 1..Len(calls) : calls[j].ret = "true"}}

\* generateTasks has returned its count.
GenerationCompleted ==
  /\ phase \notin {"startup", "generation"}
  /\ genIndex = Len(genTargets) + 1

\* C38: after generateTasks has completed the task directory holds exactly
\* the artifacts written in this run, none of an earlier run, and the
\* execution that follows runs task files of this run only.
C38_TaskDirHoldsThisRunOnly ==
  GenerationCompleted =>
    /\ taskDir = WrittenThisRun
    /\ \A i \in 1..Len(taskFiles) :
         \E a \in WrittenThisRun : pathJoin(OutputDir, a.name) = taskFiles[i]

\* The task directory held an artifact of an earlier run, generateTasks has
\* completed and written an artifact, and the agent of its task runs.
C38_Witness ==
  /\ invocation.outputDir \in {"stale", "inherited"}
  /\ GenerationCompleted
  /\ Cardinality(taskDir) = 1
  /\ InitialTaskDir(invocation.outputDir) \cap taskDir = {}
  /\ \E i \in 1..Len(taskFiles) : status[i] = "agent"

=============================================================================
